---- MODULE Spec2Model ----
(***************************************************************************)
(* n3gb-rs: hexagonal spatial index over the British National Grid.        *)
(*                                                                         *)
(* Numbers.  The program computes in f64, and so does this module: a       *)
(* finite f64 is a record [neg, man, exp] that stands for                  *)
(* (-1)^neg * man * 2^exp with a mantissa of exactly 53 bits, and F64Add,  *)
(* F64Sub, F64Mul, F64Div and F64Sqrt round to nearest, ties to even, as   *)
(* IEEE 754 binary64 does.  Mantissas are natural numbers of any size held *)
(* as sequences of 15-bit limbs.  -0.0 is identified with 0.0 (the two     *)
(* compare equal and no operation used here tells them apart); no value    *)
(* comes near the subnormal or the infinite range, and no NaN arises.      *)
(* f64::round is half away from zero, i64 `%` is RustRem, and `as u64` of  *)
(* a negative float is 0 (Rust's saturating cast).  A u64 is a natural     *)
(* number in limbs; an i64 or usize index is an integer below 2^31.        *)
(*                                                                         *)
(* Identifiers.  An identifier string is the sequence of its base64        *)
(* symbols, each given by its index 0..63 in the URL-safe alphabet; the    *)
(* value NotASymbol stands for any character outside the alphabet.         *)
(***************************************************************************)
EXTENDS Integers, Sequences, FiniteSets, TLC

VARIABLES call, ret, par

vars == <<call, ret, par>>

(***************************************************************************)
(* Integer helpers                                                         *)
(***************************************************************************)
\* i64 `%`: the remainder has the sign of the dividend.
RustRem(a, b) == IF a >= 0 THEN a % b ELSE -((-a) % b)

Abs(a) == IF a >= 0 THEN a ELSE -a

Min2(a, b) == IF a <= b THEN a ELSE b

Max2(a, b) == IF a >= b THEN a ELSE b

RECURSIVE SumSeq(_)
SumSeq(s) == IF s = <<>> THEN 0 ELSE Head(s) + SumSeq(Tail(s))

\* fold(0u8, wrapping_add) over a byte sequence.
WrappingSum(bytes) == SumSeq(bytes) % 256

Ok(v) == [tag |-> "Ok", val |-> v]

Some(v) == [tag |-> "Some", val |-> v]

Err(e) == [tag |-> "Err", err |-> e]

\* An abort: expect(msg) on None, an index out of bounds.
Panic(msg) == [tag |-> "Panic", msg |-> msg]

\* The value of a call that returns no Result.
Returned(v) == [tag |-> "Returned", val |-> v]

RECURSIVE Concat(_)
Concat(ss) == IF ss = <<>> THEN <<>> ELSE Head(ss) \o Concat(Tail(ss))

(***************************************************************************)
(* binary64 arithmetic                                                     *)
(***************************************************************************)
\* The element of a set of one element.  One({ f(v) : v \in {e} }) is
\* `let v = e;` and f(v) after it, e being evaluated once.
One(S) == CHOOSE r \in S : TRUE

\* Natural numbers of any size: limbs of 15 bits, the lowest first, the
\* highest not 0; << >> is 0.
Limb == 2^15

RECURSIVE BitsOf(_)
BitsOf(n) == IF n = 0 THEN 0 ELSE 1 + BitsOf(n \div 2)

LimbBits == BitsOf(Limb) - 1

BigTrim(a0) ==
  One({
    IF \A i \in 1..Len(a) : a[i] = 0 THEN << >>
    ELSE SubSeq(a, 1, CHOOSE n \in 1..Len(a) :
                        a[n] # 0 /\ \A j \in (n + 1)..Len(a) : a[j] = 0)
    : a \in {a0} })

RECURSIVE BigFromInt(_)
BigFromInt(n) == IF n = 0 THEN << >> ELSE <<n % Limb>> \o BigFromInt(n \div Limb)

RECURSIVE BigToInt(_)
BigToInt(a) == IF a = << >> THEN 0 ELSE a[1] + Limb * BigToInt(Tail(a))

LimbAt(a, i) == IF i <= Len(a) THEN a[i] ELSE 0

\* Columns below 2 * Limb - 1 to limbs: a column takes a carry of 1 when a
\* column below it overflows and every column between them is full.
Ripple(u0) ==
  One({
    [i \in 1..Len(u) |->
       (u[i] + (IF \E j \in 1..(i - 1) :
                     /\ u[j] >= Limb
                     /\ \A k \in (j + 1)..(i - 1) : u[k] = Limb - 1
                  THEN 1 ELSE 0)) % Limb] \o << >>
    : u \in {u0} })

\* Columns of any size below 2^31 to limbs: every column keeps its low limb
\* and takes what is above the low limb of the column below it.
BigNorm(c0) ==
  One({
    BigTrim(Ripple([i \in 1..(Len(c) + 1) |->
                      (IF i <= Len(c) THEN c[i] % Limb ELSE 0)
                        + (IF i > 1 THEN c[i - 1] \div Limb ELSE 0)] \o << >>))
    : c \in {c0} })

BigAdd(a0, b0) ==
  One({
    BigTrim(Ripple([i \in 1..(Max2(Len(a), Len(b)) + 1) |->
                      LimbAt(a, i) + LimbAt(b, i)] \o << >>))
    : a \in {a0}, b \in {b0} })

\* Differences of limbs to limbs: a column gives 1 to a negative column
\* below it when every column between them is 0.
Borrow(d0) ==
  One({
    [i \in 1..Len(d) |->
       (d[i] + Limb - (IF \E j \in 1..(i - 1) :
                            /\ d[j] < 0
                            /\ \A k \in (j + 1)..(i - 1) : d[k] = 0
                         THEN 1 ELSE 0)) % Limb] \o << >>
    : d \in {d0} })

\* a - b for a >= b
BigSub(a0, b0) ==
  One({
    BigTrim(Borrow([i \in 1..Len(a) |-> a[i] - LimbAt(b, i)] \o << >>))
    : a \in {a0}, b \in {b0} })

\* 1, 0 or -1 as a is above, equal to or below b
BigCmp(a0, b0) ==
  One({
    IF Len(a) > Len(b) THEN 1
    ELSE IF Len(a) < Len(b) THEN -1
    ELSE One({
           IF differ = {} THEN 0
           ELSE One({
                  IF a[top] > b[top] THEN 1 ELSE -1
                  : top \in {CHOOSE i \in differ : \A j \in differ : j <= i} })
           : differ \in {{i \in 1..Len(a) : a[i] # b[i]}} })
    : a \in {a0}, b \in {b0} })

\* a * k for 0 <= k <= Limb
BigMulSmall(a0, k0) ==
  One({
                              BigNorm([i \in 1..Len(a) |-> a[i] * k])
    : a \in {a0}, k \in {k0} })

\* a * Limb^n
BigShiftLimbs(a0, n) ==
  One({
                      IF a = << >> THEN a ELSE [i \in 1..n |-> 0] \o a
    : a \in {a0} })

\* The low limbs of the products a[i] * b[j] of column k, i + j = k + 1,
\* and the high limbs of those of column k - 1.
BigMulColumn(a, b, k) ==
  SumSeq([i \in 1..Len(a) |->
            (IF k + 1 - i \in 1..Len(b) THEN (a[i] * b[k + 1 - i]) % Limb ELSE 0)
              + (IF k - i \in 1..Len(b) THEN (a[i] * b[k - i]) \div Limb ELSE 0)])

BigMul(a0, b0) ==
  One({
    BigNorm([k \in 1..(Len(a) + Len(b)) |-> BigMulColumn(a, b, k)])
    : a \in {a0}, b \in {b0} })

\* a * 2^n
BigShl(a0, n0) ==
  One({
    BigShiftLimbs(BigNorm([i \in 1..Len(a) |-> a[i] * 2^(n % LimbBits)]),
                  n \div LimbBits)
    : a \in {a0}, n \in {n0} })

\* a \div 2^n
BigShr(a0, n0) ==
  One({
    One({
      BigTrim([i \in 1..(Len(a) - drop) |->
                 a[i + drop] \div low
                   + (LimbAt(a, i + drop + 1) % low) * (Limb \div low)] \o << >>)
      : drop \in {n \div LimbBits}, low \in {2^(n % LimbBits)} })
    : a \in {a0}, n \in {n0} })

BigPow2(n) == BigShl(<<1>>, n)

BigBitLen(a0) ==
  One({
    IF a = << >> THEN 0 ELSE LimbBits * (Len(a) - 1) + BitsOf(a[Len(a)])
    : a \in {a0} })

BigOdd(a0) == One({
                                  a # << >> /\ a[1] % 2 = 1
                : a \in {a0} })

\* The digit cur \div b of a long division, cur < b * Limb, the highest limb
\* of b being at least Limb / 2: it is at most two below its estimate from
\* the two highest limbs of cur and the highest limb of b.
BigDivDigit(b, cur) ==
  One({
    CHOOSE d \in Max2(est - 2, 0)..est :
      /\ BigCmp(BigMulSmall(b, d), cur) <= 0
      /\ d = est \/ BigCmp(BigMulSmall(b, d + 1), cur) > 0
    : est \in {Min2((LimbAt(cur, Len(b) + 1) * Limb + LimbAt(cur, Len(b))) \div b[Len(b)],
            Limb - 1)} })

\* One step of a long division by b: the limb is brought down onto the
\* remainder st.r < b, and the quotient st.q gains a digit.
BigDivStep(b, limb, st) ==
  One({
    One({
      [r |-> BigSub(cur, BigMulSmall(b, digit)), q |-> <<digit>> \o st.q]
      : digit \in {BigDivDigit(b, cur)} })
    : cur \in {BigTrim(<<limb>> \o st.r)} })

\* Long division of the limbs i, i - 1, .. 1 of a by b.
RECURSIVE BigDivLimbs(_, _, _, _)
BigDivLimbs(a, b, i, st0) ==
  One({
    IF i = 0 THEN st ELSE BigDivLimbs(a, b, i - 1, BigDivStep(b, a[i], st))
    : st \in {st0} })

\* a \div b and a % b, b # 0
BigDivMod(a0, b0) ==
  One({
    One({
      One({
        One({
          [q |-> BigTrim(res.q), r |-> BigShr(res.r, s)]
          : res \in {BigDivLimbs(an, bn, Len(an), [r |-> << >>, q |-> << >>])} })
        : an \in {BigShl(a, s)}, bn \in {BigShl(b, s)} })
      : s \in {LimbBits - BitsOf(b[Len(b)])} })
    : a \in {a0}, b \in {b0} })

\* The largest r with r * r <= t, for t < 2^30: the bits i, .. 0 of r are
\* decided in turn.
RECURSIVE IntSqrtBits(_, _, _)
IntSqrtBits(t, i, r0) ==
  One({
    IF i < 0 THEN r
    ELSE IntSqrtBits(t, i - 1, IF (r + 2^i) * (r + 2^i) <= t THEN r + 2^i ELSE r)
    : r \in {r0} })

\* Newton's iteration from x >= sqrt(a), down to the largest r with
\* r * r <= a.
RECURSIVE BigSqrtFrom(_, _)
BigSqrtFrom(a, x0) ==
  One({
    One({
      IF BigCmp(y, x) >= 0 THEN x ELSE BigSqrtFrom(a, y)
      : y \in {BigShr(BigAdd(x, BigDivMod(a, x).q), 1)} })
    : x \in {x0} })

\* The largest r with r * r <= a
BigSqrt(a0) ==
  One({
    IF a = << >> THEN a
    ELSE One({
           One({
             BigSqrtFrom(a, BigShl(BigFromInt(top + 1), (over + (over % 2)) \div 2))
             : top \in {IntSqrtBits(BigToInt(BigShr(a, over + (over % 2))), LimbBits - 1, 0)} })
           : over \in {Max2(BigBitLen(a) - 2 * LimbBits, 0)} })
    : a \in {a0} })

\* f64::MANTISSA_DIGITS
F64_MANTISSA_DIGITS == 53

\* A finite f64 is (-1)^neg * man * 2^exp with man of exactly 53 bits, or 0
\* (man = 0, exp = 0, neg = FALSE: -0.0 and 0.0 compare equal, and nothing
\* here tells them apart).  Every value stays far from the subnormal and
\* the infinite range.
F64Zero == [neg |-> FALSE, man |-> << >>, exp |-> 0]

\* The exact value (-1)^neg * n * 2^e.
Exact(neg, n0, e) ==
  One({
    IF n = << >> THEN F64Zero ELSE [neg |-> neg, man |-> n, exp |-> e]
    : n \in {n0} })

ExactNeg(a0) == One({
                                    Exact(~a.neg, a.man, a.exp)
                  : a \in {a0} })

\* a + b, the mantissas being brought to the lower of the two exponents
ExactAdd(a0, b0) ==
  One({
    IF a.man = << >> THEN b
    ELSE IF b.man = << >> THEN a
    ELSE One({
           IF a.neg = b.neg THEN Exact(a.neg, BigAdd(am, bm), Min2(a.exp, b.exp))
           ELSE One({
                  IF c = 0 THEN F64Zero
                  ELSE IF c > 0 THEN Exact(a.neg, BigSub(am, bm), Min2(a.exp, b.exp))
                  ELSE Exact(b.neg, BigSub(bm, am), Min2(a.exp, b.exp))
                  : c \in {BigCmp(am, bm)} })
           : am \in {BigShl(a.man, a.exp - Min2(a.exp, b.exp))},
             bm \in {BigShl(b.man, b.exp - Min2(a.exp, b.exp))} })
    : a \in {a0}, b \in {b0} })

ExactMul(a0, b0) ==
  One({
    IF a.man = << >> \/ b.man = << >> THEN F64Zero
    ELSE Exact(a.neg # b.neg, BigMul(a.man, b.man), a.exp + b.exp)
    : a \in {a0}, b \in {b0} })

\* a <= b
ExactLeq(a, b) ==
  One({
                                            d.man = << >> \/ d.neg
    : d \in {ExactAdd(a, ExactNeg(b))} })

\* Whether man, cut to its bits from bit sh up (q), is rounded up: to
\* nearest, ties to even; sticky tells that the value is just above man.
RoundsUp(man, q, sh, sticky) ==
  One({
    c > 0 \/ (c = 0 /\ (sticky \/ BigOdd(q)))
    : c \in {BigCmp(BigSub(man, BigShl(q, sh)), BigPow2(sh - 1))} })

\* Round to nearest, ties to even: the f64 nearest to v, or to a value just
\* above v when sticky (then v has at least two bits more than an f64).
F64Of(v0, sticky) ==
  One({
    One({
      IF v.man = << >> THEN F64Zero
      ELSE IF sh <= 0
        THEN [neg |-> v.neg, man |-> BigShl(v.man, -sh), exp |-> v.exp + sh]
      ELSE One({
             One({
               IF BigBitLen(m) > F64_MANTISSA_DIGITS
                 THEN [neg |-> v.neg, man |-> BigShr(m, 1), exp |-> v.exp + sh + 1]
                 ELSE [neg |-> v.neg, man |-> m, exp |-> v.exp + sh]
               : m \in {IF RoundsUp(v.man, q, sh, sticky) THEN BigAdd(q, <<1>>) ELSE q} })
             : q \in {BigShr(v.man, sh)} })
      : sh \in {BigBitLen(v.man) - F64_MANTISSA_DIGITS} })
    : v \in {v0} })

\* a + b, a - b, a * b of f64
F64Add(a, b) == F64Of(ExactAdd(a, b), FALSE)

F64Sub(a, b) == F64Of(ExactAdd(a, ExactNeg(b)), FALSE)

F64Mul(a, b) == F64Of(ExactMul(a, b), FALSE)

\* a / b of f64, b # 0: the quotient of the mantissas to 56 bits or more,
\* and whether it is exact; a power of two divides exactly.
F64Div(a0, b0) ==
  One({
    IF a.man = << >> THEN F64Zero
    ELSE IF b.man = BigPow2(F64_MANTISSA_DIGITS - 1)
      THEN [neg |-> a.neg # b.neg, man |-> a.man,
            exp |-> a.exp - b.exp - (F64_MANTISSA_DIGITS - 1)]
    ELSE One({
           F64Of(Exact(a.neg # b.neg, dm.q,
                       a.exp - b.exp - (F64_MANTISSA_DIGITS + 3)),
                 dm.r # << >>)
           : dm \in {BigDivMod(BigShl(a.man, F64_MANTISSA_DIGITS + 3), b.man)} })
    : a \in {a0}, b \in {b0} })

\* f64::sqrt of a >= 0: the root of the mantissa, brought to an even
\* exponent, to 55 bits or more, and whether it is exact.
F64Sqrt(a0) ==
  One({
    IF a.man = << >> THEN F64Zero
    ELSE One({
           One({
             One({
               F64Of(Exact(FALSE, r, (a.exp - k) \div 2), BigMul(r, r) # n)
               : r \in {BigSqrt(n)} })
             : n \in {BigShl(a.man, k)} })
           : k \in {F64_MANTISSA_DIGITS + 3 + ((a.exp + F64_MANTISSA_DIGITS + 3) % 2)} })
    : a \in {a0} })

\* n as f64, for an integer below 2^31
F64FromInt(n) == F64Of(Exact(n < 0, BigFromInt(Abs(n)), 0), FALSE)

\* a.ceil() as usize: a negative value saturates to 0
F64CeilAsUsize(a0) ==
  One({
    IF a.neg \/ a.man = << >> THEN 0
    ELSE IF a.exp >= 0 THEN BigToInt(BigShl(a.man, a.exp))
    ELSE One({
           BigToInt(q) + (IF BigShl(q, -a.exp) = a.man THEN 0 ELSE 1)
           : q \in {BigShr(a.man, -a.exp)} })
    : a \in {a0} })

\* a as usize: towards zero; a negative value saturates to 0
F64AsUsize(a0) ==
  One({
    IF a.neg \/ a.man = << >> THEN 0
    ELSE IF a.exp >= 0 THEN BigToInt(BigShl(a.man, a.exp))
    ELSE BigToInt(BigShr(a.man, -a.exp))
    : a \in {a0} })

\* a.round() as i64: half away from zero
F64RoundAsI64(a0) ==
  One({
    One({
                      IF a.neg THEN -mag ELSE mag
      : mag \in {IF a.man = << >> THEN 0
         ELSE IF a.exp >= 0 THEN BigToInt(BigShl(a.man, a.exp))
         ELSE BigToInt(BigShr(BigAdd(a.man, BigPow2(-a.exp - 1)), -a.exp))} })
    : a \in {a0} })

\* The largest f64 below a > 0.
F64Below(a0) ==
  One({
    IF a.man = BigPow2(F64_MANTISSA_DIGITS - 1)
      THEN [a EXCEPT !.man = BigSub(BigPow2(F64_MANTISSA_DIGITS), <<1>>),
                     !.exp = @ - 1]
      ELSE [a EXCEPT !.man = BigSub(@, <<1>>)]
    : a \in {a0} })

\* The sign of a - b: -1, 0 or 1.
F64Cmp(a0, b0) ==
  One({
    IF a.man = << >> THEN (IF b.man = << >> THEN 0 ELSE IF b.neg THEN 1 ELSE -1)
    ELSE IF b.man = << >> \/ a.neg # b.neg THEN (IF a.neg THEN -1 ELSE 1)
    ELSE One({
                         IF a.neg THEN -c ELSE c
           : c \in {IF a.exp # b.exp THEN (IF a.exp > b.exp THEN 1 ELSE -1)
              ELSE BigCmp(a.man, b.man)} })
    : a \in {a0}, b \in {b0} })

F64Lt(a, b) == F64Cmp(a, b) < 0

F64Le(a, b) == F64Cmp(a, b) <= 0

F64Min(a, b) == IF F64Lt(b, a) THEN b ELSE a

F64Max(a, b) == IF F64Lt(a, b) THEN b ELSE a

F64Neg(a) == ExactNeg(a)

F64Abs(a) == [a EXCEPT !.neg = FALSE]

\* The sign of an exact value: -1, 0 or 1.
ExactSign(v0) ==
  One({
                      IF v.man = << >> THEN 0 ELSE IF v.neg THEN -1 ELSE 1
    : v \in {v0} })

\* a - b, exactly
ExactSub(a, b) == ExactAdd(a, ExactNeg(b))

\* n as f64 for a u64 n in limbs
F64FromU64(n) == F64Of(Exact(FALSE, n, 0), FALSE)

\* u64::MAX
U64_MAX == BigSub(BigPow2(64), <<1>>)

\* a.round() as u64, in limbs: half away from zero; a negative value
\* saturates to 0 and a value of 2^64 or more to u64::MAX.
F64RoundAsU64(a0) ==
  One({
    IF a.neg \/ a.man = << >> THEN << >>
    ELSE IF a.exp >= 0
      THEN (IF a.exp + F64_MANTISSA_DIGITS > 64 THEN U64_MAX
            ELSE BigShl(a.man, a.exp))
    ELSE BigShr(BigAdd(a.man, BigPow2(-a.exp - 1)), -a.exp)
    : a \in {a0} })

\* The f64 a decimal literal n / d denotes, |n| and d below 2^31 (the
\* quotient of two exact values, rounded once).
F64Ratio(n, d) == F64Div(F64FromInt(n), F64FromInt(d))

\* 2.0
F64Two == F64FromInt(2)
(***************************************************************************)
(* Constants of src/src/core/constants.rs                                  *)
(***************************************************************************)
IDENTIFIER_VERSION == 1

SCALE_FACTOR == 1000

MAX_ZOOM_LEVEL == 15

\* GRID_EXTENTS: [f64; 4] = [0.0, 0.0, 750000.0, 1350000.0], indexed from 1
GRID_EXTENTS ==
  << F64FromInt(0), F64FromInt(0), F64FromInt(750000), F64FromInt(1350000) >>

\* CELL_WIDTHS[zoom], in metres, at index zoom + 1
CELL_WIDTHS ==
  << F64FromInt(2219190),
     F64FromInt(836660),
     F64FromInt(316116),
     F64FromInt(119476),
     F64FromInt(45154),
     F64FromInt(17060),
     F64FromInt(6443),
     F64FromInt(2424),
     F64FromInt(917),
     F64FromInt(346),
     F64FromInt(130),
     F64FromInt(49),
     F64FromInt(18),
     F64FromInt(7),
     F64FromInt(3),
     F64FromInt(1) >>

\* CELL_RADIUS[zoom], in metres, at index zoom + 1: the f64 each literal
\* of the table denotes.
CELL_RADIUS ==
  << \* 1281249.9438829257
     [neg |-> FALSE, man |-> <<20409, 25412, 13191, 156>>, exp |-> -32],
     \* 483045.8762201923
     [neg |-> FALSE, man |-> <<23992, 639, 28254, 235>>, exp |-> -34],
     \* 182509.65769514776
     [neg |-> FALSE, man |-> <<11379, 1515, 7605, 178>>, exp |-> -35],
     \* 68979.50076169973
     [neg |-> FALSE, man |-> <<13111, 1597, 23776, 134>>, exp |-> -36],
     \* 26069.67405498836
     [neg |-> FALSE, man |-> <<2222, 18287, 21932, 203>>, exp |-> -38],
     \* 9849.595592375015
     [neg |-> FALSE, man |-> <<30264, 30909, 29488, 153>>, exp |-> -39],
     \* 3719.867784388759
     [neg |-> FALSE, man |-> <<17254, 7288, 16113, 232>>, exp |-> -41],
     \* 1399.497052515653
     [neg |-> FALSE, man |-> <<11391, 30379, 30707, 174>>, exp |-> -42],
     \* 529.4301968468868
     [neg |-> FALSE, man |-> <<25029, 5654, 11716, 132>>, exp |-> -43],
     \* 199.76319313961054
     [neg |-> FALSE, man |-> <<25877, 10249, 25008, 199>>, exp |-> -45],
     \* 75.05553499465135
     [neg |-> FALSE, man |-> <<29673, 17740, 3639, 150>>, exp |-> -46],
     \* 28.290163190291665
     [neg |-> FALSE, man |-> <<20036, 17673, 10528, 226>>, exp |-> -48],
     \* 10.392304845413264
     [neg |-> FALSE, man |-> <<14720, 23684, 9072, 166>>, exp |-> -49],
     \* 4.041451884327381
     [neg |-> FALSE, man |-> <<11449, 14780, 10697, 129>>, exp |-> -50],
     \* 1.7320508075688774
     [neg |-> FALSE, man |-> <<19627, 20656, 23019, 221>>, exp |-> -52],
     \* 0.5773502691896258
     [neg |-> FALSE, man |-> <<13085, 2848, 26269, 147>>, exp |-> -53] >>

\* std::f64::consts::PI
PI == [neg |-> FALSE, man |-> <<11544, 10376, 2029, 201>>, exp |-> -51]

\* f64::cos and f64::sin at the six angles of a hexagon, as the platform's
\* libm returns them.
TRIG ==
  << \* 0.5235987755982988: cos 0.8660254037844387, sin 0.49999999999999994
     [at |-> [neg |-> FALSE, man |-> <<29541, 28762, 1352, 134>>, exp |-> -53],
      cos |-> [neg |-> FALSE, man |-> <<19627, 20656, 23019, 221>>, exp |-> -53],
      sin |-> [neg |-> FALSE, man |-> <<32767, 32767, 32767, 255>>, exp |-> -54]],
     \* 1.5707963267948966: cos 6.123233995736766e-17, sin 1.0
     [at |-> [neg |-> FALSE, man |-> <<11544, 10376, 2029, 201>>, exp |-> -52],
      cos |-> [neg |-> FALSE, man |-> <<23559, 26152, 6296, 141>>, exp |-> -106],
      sin |-> [neg |-> FALSE, man |-> <<0, 0, 0, 128>>, exp |-> -52]],
     \* 2.6179938779914944: cos -0.8660254037844387, sin 0.49999999999999994
     [at |-> [neg |-> FALSE, man |-> <<20543, 3185, 18075, 167>>, exp |-> -51],
      cos |-> [neg |-> TRUE, man |-> <<19627, 20656, 23019, 221>>, exp |-> -53],
      sin |-> [neg |-> FALSE, man |-> <<32767, 32767, 32767, 255>>, exp |-> -54]],
     \* 3.6651914291880923: cos -0.8660254037844386, sin -0.5000000000000001
     [at |-> [neg |-> FALSE, man |-> <<2546, 17567, 18751, 234>>, exp |-> -51],
      cos |-> [neg |-> TRUE, man |-> <<19626, 20656, 23019, 221>>, exp |-> -53],
      sin |-> [neg |-> TRUE, man |-> <<1, 0, 0, 128>>, exp |-> -53]],
     \* 4.71238898038469: cos -1.8369701987210297e-16, sin -1.0
     [at |-> [neg |-> FALSE, man |-> <<8658, 32358, 26097, 150>>, exp |-> -50],
      cos |-> [neg |-> TRUE, man |-> <<2570, 6461, 25829, 211>>, exp |-> -105],
      sin |-> [neg |-> TRUE, man |-> <<0, 0, 0, 128>>, exp |-> -52]],
     \* 5.759586531581287: cos 0.8660254037844384, sin -0.5000000000000004
     [at |-> [neg |-> FALSE, man |-> <<32427, 6780, 10052, 184>>, exp |-> -50],
      cos |-> [neg |-> FALSE, man |-> <<19624, 20656, 23019, 221>>, exp |-> -53],
      sin |-> [neg |-> TRUE, man |-> <<4, 0, 0, 128>>, exp |-> -53]] >>

\* angle.cos(), angle.sin() for an angle of TRIG
F64Cos(angle) == TRIG[CHOOSE k \in 1..Len(TRIG) : TRIG[k].at = angle].cos

F64Sin(angle) == TRIG[CHOOSE k \in 1..Len(TRIG) : TRIG[k].at = angle].sin
(***************************************************************************)
(* URL-safe base64 without padding (base64::URL_SAFE_NO_PAD)               *)
(***************************************************************************)
NotASymbol == 64

ByteAt(bytes, i) == IF i <= Len(bytes) THEN bytes[i] ELSE 0

\* The k-th symbol of the encoding: bits 6(k-1) .. 6k-1 of the byte string,
\* zero-padded on the right.
Sextet(bytes, k) ==
  LET i == (6 * (k - 1)) \div 8 + 1
      o == (6 * (k - 1)) % 8
  IN  CASE o = 0 -> ByteAt(bytes, i) \div 4
        [] o = 2 -> ByteAt(bytes, i) % 64
        [] o = 4 -> (ByteAt(bytes, i) % 16) * 4 + ByteAt(bytes, i + 1) \div 64
        [] o = 6 -> (ByteAt(bytes, i) % 4) * 16 + ByteAt(bytes, i + 1) \div 16

Base64Encode(bytes) ==
  [k \in 1..((8 * Len(bytes) + 5) \div 6) |-> Sextet(bytes, k)]

\* The j-th byte of the decoding: bits 8(j-1) .. 8j-1 of the symbol string.
Octet(s, j) ==
  LET k == (8 * (j - 1)) \div 6 + 1
      o == (8 * (j - 1)) % 6
  IN  CASE o = 0 -> s[k] * 4 + s[k + 1] \div 16
        [] o = 2 -> (s[k] % 16) * 16 + s[k + 1] \div 4
        [] o = 4 -> (s[k] % 4) * 64 + s[k + 1]

\* Err for a character outside the alphabet, a length of 1 modulo 4, or
\* non-zero trailing bits in the last symbol; otherwise the bytes.
Base64Decode(s) ==
  LET m == Len(s)
      n == (6 * m) \div 8
      spare == 6 * m - 8 * n
  IN  IF \E k \in 1..m : s[k] >= NotASymbol \/ s[k] < 0
        THEN Err(<<"Base64DecodeError">>)
      ELSE IF m % 4 = 1
        THEN Err(<<"Base64DecodeError">>)
      ELSE IF m > 0 /\ spare = 2 /\ s[m] % 4 # 0
        THEN Err(<<"Base64DecodeError">>)
      ELSE IF m > 0 /\ spare = 4 /\ s[m] % 16 # 0
        THEN Err(<<"Base64DecodeError">>)
      ELSE Ok([j \in 1..n |-> Octet(s, j)])

(***************************************************************************)
(* Identifier codec: src/src/index/identifier.rs                           *)
(***************************************************************************)
\* (coord * SCALE_FACTOR as f64).round() as u64, for coord = v / upm metres.
(***************************************************************************)
(* Identifier codec: src/src/index/identifier.rs                           *)
(***************************************************************************)
\* (coord * SCALE_FACTOR as f64).round() as u64: a u64 in limbs.  A
\* negative product saturates at 0, one of 2^64 or more at u64::MAX.
ScaledInt(coord) == F64RoundAsU64(F64Mul(coord, F64FromInt(SCALE_FACTOR)))

\* The byte k of a u64, byte 0 the lowest.
ByteOf(n, k) == LimbAt(BigShr(n, 8 * k), 1) % 256

\* Mutation of ToBeBytes: the bytes in little-endian order (to_le_bytes).
ToLeBytes(n0) == One({
                                     [j \in 1..8 |-> ByteOf(n, j - 1)] \o << >>
                   : n \in {n0} })

\* u64::to_be_bytes
ToBeBytes(n0) == One({
                                     [j \in 1..8 |-> ByteOf(n, 8 - j)] \o << >>
                   : n \in {n0} })

\* The bit n (0 the lowest) of the u64 whose big-endian bytes are b.
BitOfBytes(b, n) ==
  IF n > 63 THEN 0 ELSE (b[8 - (n \div 8)] \div (2 ^ (n % 8))) % 2

\* u64::from_be_bytes: a u64 in limbs.
FromBeBytes(b0) ==
  One({
    BigTrim([i \in 1..5 |->
               SumSeq([t \in 1..LimbBits |->
                         BitOfBytes(b, LimbBits * (i - 1) + t - 1) * 2 ^ (t - 1)])]
            \o << >>)
    : b \in {b0} })

\* The 19 bytes of an identifier, before base64.
IdentifierBytes(easting, northing, zoom_level) ==
  One({
                            binary_data \o <<WrappingSum(binary_data)>>
    : binary_data \in {<<IDENTIFIER_VERSION>>
         \o ToBeBytes(ScaledInt(easting))
         \o ToBeBytes(ScaledInt(northing))
         \o <<zoom_level>>} })

\* generate_hex_identifier(easting, northing, zoom_level)
generate_hex_identifier(easting, northing, zoom_level) ==
  Base64Encode(IdentifierBytes(easting, northing, zoom_level)) \o << >>

\* The rest of decode_hex_identifier once the checksum holds:
\* Ok(<<version, easting, northing, zoom>>), the coordinates being
\* easting_int as f64 / SCALE_FACTOR as f64, or Err(UnsupportedVersion).
DecodeCheckVersion(data) ==
  IF data[1] # IDENTIFIER_VERSION
    THEN Err(<<"UnsupportedVersion", data[1]>>)
    ELSE Ok(<< data[1],
               F64Div(F64FromU64(FromBeBytes(SubSeq(data, 2, 9))),
                      F64FromInt(SCALE_FACTOR)),
               F64Div(F64FromU64(FromBeBytes(SubSeq(data, 10, 17))),
                      F64FromInt(SCALE_FACTOR)),
               data[18] >>)

\* Mutation of DecodeCheckSum: the version is checked before the checksum.
DecodeVersionBeforeCheckSum(binary_data) ==
  IF binary_data[1] # IDENTIFIER_VERSION
    THEN Err(<<"UnsupportedVersion", binary_data[1]>>)
  ELSE IF WrappingSum(SubSeq(binary_data, 1, 18)) # binary_data[19]
    THEN Err(<<"InvalidChecksum">>)
  ELSE DecodeCheckVersion(SubSeq(binary_data, 1, 18))

\* Mutation of DecodeCheckSum: the checksum byte is not compared.
DecodeWithoutCheckSum(binary_data) ==
  DecodeCheckVersion(SubSeq(binary_data, 1, 18))

DecodeCheckSum(binary_data) ==
  IF WrappingSum(SubSeq(binary_data, 1, 18)) # binary_data[19]
    THEN Err(<<"InvalidChecksum">>)
    ELSE DecodeCheckVersion(SubSeq(binary_data, 1, 18))

decode_hex_identifier(identifier) ==
  One({
    IF b.tag = "Err" THEN b
    ELSE IF Len(b.val) # 19 THEN Err(<<"InvalidIdentifierLength">>)
    ELSE DecodeCheckSum(b.val)
    : b \in {Base64Decode(identifier)} })

(***************************************************************************)
(* Point <-> cell index: src/src/core/grid.rs                              *)
(***************************************************************************)
\* 0.5 and 1.5
F64Half == F64Ratio(1, 2)

F64OneAndHalf == F64Ratio(3, 2)

\* dy = 1.5 * r
RowHeight(z) == F64Mul(F64OneAndHalf, CELL_RADIUS[z + 1])

\* The rest of point_to_hex once the zoom is valid.
point_to_hex_checked(x, y, z) ==
  One({
    One({
      Ok(<<row, F64RoundAsI64(F64Sub(qx, F64FromInt(RustRem(row, 2))))>>)
      : row \in {F64RoundAsI64(ry)} })
    : qx \in {F64Div(F64Sub(x, GRID_EXTENTS[1]), CELL_WIDTHS[z + 1])},
      ry \in {F64Div(F64Sub(y, GRID_EXTENTS[2]), RowHeight(z))} })

\* Mutation of point_to_hex: the zoom check is `z >= MAX_ZOOM_LEVEL`.
point_to_hex_below_max(x, y, z) ==
  IF z >= MAX_ZOOM_LEVEL
    THEN Err(<<"InvalidZoomLevel", z>>)
    ELSE point_to_hex_checked(x, y, z)

\* point_to_hex(&(x, y), z): Ok(<<row, col>>) or Err(InvalidZoomLevel(z)).
point_to_hex(x, y, z) ==
  IF z > MAX_ZOOM_LEVEL
    THEN Err(<<"InvalidZoomLevel", z>>)
    ELSE point_to_hex_checked(x, y, z)

\* hex_to_point(row, col, z): Ok([x, y]) or Err(InvalidZoomLevel(z)).
hex_to_point(row, col, z) ==
  IF z > MAX_ZOOM_LEVEL
    THEN Err(<<"InvalidZoomLevel", z>>)
    ELSE Ok([x |-> F64Add(F64Add(GRID_EXTENTS[1],
                                 F64Mul(F64FromInt(col), CELL_WIDTHS[z + 1])),
                          F64Mul(F64FromInt(RustRem(row, 2)),
                                 F64Div(CELL_WIDTHS[z + 1], F64Two))),
             y |-> F64Add(GRID_EXTENTS[2], F64Mul(F64FromInt(row), RowHeight(z)))])

(***************************************************************************)
(* Hexagon geometry: src/src/core/geometry.rs                              *)
(***************************************************************************)
\* f64::to_radians: self * (PI / 180.0)
RADS_PER_DEG == F64Div(PI, F64FromInt(180))

to_radians(deg) == F64Mul(deg, RADS_PER_DEG)

\* angle_rad of vertex i = 0..5 (index i + 1):
\* (30.0 + (i as f64 * 60.0)).to_radians()
HEXAGON_ANGLES ==
  [k \in 1..6 |-> to_radians(F64Add(F64FromInt(30),
                                    F64Mul(F64FromInt(k - 1), F64FromInt(60))))]

\* Mutation of create_hexagon: the angles are 60 * i degrees from the
\* northing axis (cos and sin exchanged).
create_hexagon_flat_top(center_x, center_y, size) ==
  One({
                       coords \o <<coords[1]>>
    : coords \in {[k \in 1..6 |->
          [x |-> F64Add(center_x, F64Mul(size, F64Sin(HEXAGON_ANGLES[k]))),
           y |-> F64Add(center_y, F64Mul(size, F64Cos(HEXAGON_ANGLES[k])))]] \o << >>} })

\* create_hexagon(center_x, center_y, size): six vertices and the first again.
create_hexagon(center_x, center_y, size) ==
  One({
                       coords \o <<coords[1]>>
    : coords \in {[k \in 1..6 |->
          [x |-> F64Add(center_x, F64Mul(size, F64Cos(HEXAGON_ANGLES[k]))),
           y |-> F64Add(center_y, F64Mul(size, F64Sin(HEXAGON_ANGLES[k])))]] \o << >>} })

(***************************************************************************)
(* HexCell: src/src/cell.rs                                                *)
(***************************************************************************)
HexCell(id, center, zoom_level, row, col) ==
  [id |-> id, center |-> center, zoom_level |-> zoom_level,
   row |-> row, col |-> col]

\* The cell of (row, col): its centre and the identifier of the centre.
cell_at(row, col, zoom) ==
  One({
    HexCell(generate_hex_identifier(center.x, center.y, zoom), center, zoom,
            row, col)
    : center \in {hex_to_point(row, col, zoom).val} })

\* HexCell::from_bng(&(x, y), zoom)
from_bng(x, y, zoom) ==
  One({
    IF rc.tag = "Err" THEN rc
    ELSE Ok(cell_at(rc.val[1], rc.val[2], zoom))
    : rc \in {point_to_hex(x, y, zoom)} })

\* Mutation of from_hex_id: the decoded zoom is not checked; a zoom above
\* MAX_ZOOM_LEVEL is indexed as MAX_ZOOM_LEVEL.
from_hex_id_unchecked(id) ==
  One({
    IF d.tag = "Err" THEN d
    ELSE One({
           Ok(HexCell(id, [x |-> d.val[2], y |-> d.val[3]], d.val[4],
                      rc.val[1], rc.val[2]))
           : rc \in {point_to_hex(d.val[2], d.val[3], Min2(d.val[4], MAX_ZOOM_LEVEL))} })
    : d \in {decode_hex_identifier(id)} })

\* Mutation of from_hex_id: a decoder failure is reported as one error,
\* whatever its kind.
from_hex_id_masked(id) ==
  One({
    IF d.tag = "Err" THEN Err(<<"InvalidIdentifierLength">>)
    ELSE One({
           IF rc.tag = "Err" THEN rc
           ELSE Ok(HexCell(id, [x |-> d.val[2], y |-> d.val[3]], d.val[4],
                           rc.val[1], rc.val[2]))
           : rc \in {point_to_hex(d.val[2], d.val[3], d.val[4])} })
    : d \in {decode_hex_identifier(id)} })

\* HexCell::from_hex_id(id)
from_hex_id(id) ==
  One({
    IF d.tag = "Err" THEN d
    ELSE One({
           IF rc.tag = "Err" THEN rc
           ELSE Ok(HexCell(id, [x |-> d.val[2], y |-> d.val[3]], d.val[4],
                           rc.val[1], rc.val[2]))
           : rc \in {point_to_hex(d.val[2], d.val[3], d.val[4])} })
    : d \in {decode_hex_identifier(id)} })

\* HexCell::to_polygon
to_polygon(cell) ==
  create_hexagon(cell.center.x, cell.center.y, CELL_RADIUS[cell.zoom_level + 1])

(***************************************************************************)
(* geo: bounding rectangle and intersection of polygons.  A polygon is the *)
(* sequence of the coordinates of its exterior ring (no holes).  The       *)
(* orientation predicate of geo's kernel is exact, and so is Orient2d.     *)
(***************************************************************************)
\* a == b for two coordinates
SameCoord(a, b) == F64Cmp(a.x, b.x) = 0 /\ F64Cmp(a.y, b.y) = 0

\* The ring closed: Polygon::new appends the first coordinate when the ring
\* is open.
ClosedRing(ring) ==
  IF ring = <<>> \/ SameCoord(ring[1], ring[Len(ring)])
    THEN ring ELSE ring \o <<ring[1]>>

\* The smallest and the largest of a non-empty sequence of f64
RECURSIVE F64MinOf(_, _, _)
F64MinOf(s, k, least) ==
  IF k > Len(s) THEN least
  ELSE F64MinOf(s, k + 1, IF F64Lt(s[k], least) THEN s[k] ELSE least)

RECURSIVE F64MaxOf(_, _, _)
F64MaxOf(s, k, most) ==
  IF k > Len(s) THEN most
  ELSE F64MaxOf(s, k + 1, IF F64Lt(most, s[k]) THEN s[k] ELSE most)

\* polygon.bounding_rect(): None for a polygon without coordinates.
bounding_rect(polygon0) ==
  One({
    IF polygon = <<>> THEN [tag |-> "None"]
    ELSE One({
           [tag |-> "Some",
            min |-> [x |-> F64MinOf(xs, 2, xs[1]), y |-> F64MinOf(ys, 2, ys[1])],
            max |-> [x |-> F64MaxOf(xs, 2, xs[1]), y |-> F64MaxOf(ys, 2, ys[1])]]
           : xs \in {[i \in 1..Len(polygon) |-> polygon[i].x] \o << >>},
             ys \in {[i \in 1..Len(polygon) |-> polygon[i].y] \o << >>} })
    : polygon \in {polygon0} })

\* Kernel::orient2d(p, q, r): 1 counter-clockwise, -1 clockwise, 0
\* collinear; the sign of (p.x - r.x)(q.y - r.y) - (p.y - r.y)(q.x - r.x).
Orient2d(p, q, r) ==
  ExactSign(ExactSub(ExactMul(ExactSub(p.x, r.x), ExactSub(q.y, r.y)),
                     ExactMul(ExactSub(p.y, r.y), ExactSub(q.x, r.x))))

\* value_in_between(v, a, b)
value_in_between(v, a, b) ==
  \/ F64Le(a, v) /\ F64Le(v, b)
  \/ F64Le(b, v) /\ F64Le(v, a)

\* point_in_rect(p, a, b): p in the rectangle of corners a and b
point_in_rect(p, a, b) ==
  value_in_between(p.x, a.x, b.x) /\ value_in_between(p.y, a.y, b.y)

\* The rectangles of the segments a b and c d are apart.
RectsApart(a, b, c, d) ==
  \/ F64Lt(F64Max(a.x, b.x), F64Min(c.x, d.x))
  \/ F64Lt(F64Max(c.x, d.x), F64Min(a.x, b.x))
  \/ F64Lt(F64Max(a.y, b.y), F64Min(c.y, d.y))
  \/ F64Lt(F64Max(c.y, d.y), F64Min(a.y, b.y))

\* Line::intersects(&Line) for the segments a b and c d: they share a
\* point.  Segments whose rectangles are apart share none.
SegmentsIntersect(a, b, c, d) ==
  IF RectsApart(a, b, c, d) THEN FALSE
  ELSE IF SameCoord(a, b) THEN Orient2d(c, d, a) = 0 /\ point_in_rect(a, c, d)
  ELSE One({
         IF check_1_1 # check_1_2
           THEN Orient2d(c, d, a) # Orient2d(c, d, b)
         ELSE IF check_1_1 = 0
           THEN \/ point_in_rect(c, a, b) \/ point_in_rect(d, a, b)
                \/ point_in_rect(b, c, d)
         ELSE FALSE
         : check_1_1 \in {Orient2d(a, b, c)}, check_1_2 \in {Orient2d(a, b, d)} })

\* The winding number a line start -> end adds for the coordinate p, and
\* whether p is found on the line (coord_pos_relative_to_ring).
RingLineAt(start, end, p) ==
  IF F64Le(start.y, p.y)
    THEN IF F64Le(p.y, end.y)
           THEN One({
                  [wind |-> IF o = 1 /\ F64Cmp(end.y, p.y) # 0 THEN 1 ELSE 0,
                   on |-> o = 0 /\ value_in_between(p.x, start.x, end.x)]
                  : o \in {Orient2d(start, end, p)} })
           ELSE [wind |-> 0, on |-> FALSE]
  ELSE IF F64Le(end.y, p.y)
    THEN One({
           [wind |-> IF o = -1 THEN -1 ELSE 0,
            on |-> o = 0 /\ value_in_between(p.x, start.x, end.x)]
           : o \in {Orient2d(start, end, p)} })
  ELSE [wind |-> 0, on |-> FALSE]

\* coord_pos_relative_to_ring(p, ring) != CoordPos::Outside: p lies in the
\* closed region the closed ring bounds.
PointInRing(p, ring) ==
  IF ring = << >> THEN FALSE
  ELSE IF Len(ring) = 1 THEN SameCoord(p, ring[1])
  ELSE One({
         \/ \E i \in 1..Len(at) : at[i].on
         \/ SumSeq([i \in 1..Len(at) |-> at[i].wind]) # 0
         : at \in {[i \in 1..(Len(ring) - 1) |-> RingLineAt(ring[i], ring[i + 1], p)]
              \o << >>} })

\* has_disjoint_bboxes: both rings have a bounding rectangle and the two
\* rectangles share no point.
has_disjoint_bboxes(ra, rb) ==
  One({
    /\ a.tag = "Some" /\ b.tag = "Some"
    /\ \/ F64Lt(a.max.x, b.min.x) \/ F64Lt(b.max.x, a.min.x)
       \/ F64Lt(a.max.y, b.min.y) \/ F64Lt(b.max.y, a.min.y)
    : a \in {bounding_rect(ra)}, b \in {bounding_rect(rb)} })

\* A line of ra and a line of rb share a point.
LinesMeet(ra, rb) ==
  \E i \in 1..(Len(ra) - 1), j \in 1..(Len(rb) - 1) :
    SegmentsIntersect(ra[i], ra[i + 1], rb[j], rb[j + 1])

\* A line of rb has an end in the polygon of ring ra.
EndInside(ra, rb) ==
  Len(rb) >= 2 /\ \E j \in 1..Len(rb) : PointInRing(rb[j], ra)

\* Polygon::intersects(&Polygon) for two closed rings: the bounding
\* rectangles are not apart, and a line of one ring meets the other
\* polygon's ring or has an end in the other polygon
\* (self.intersects(polygon.exterior()) || polygon.intersects(self.exterior())).
RingsIntersect(ra, rb) ==
  /\ ~has_disjoint_bboxes(ra, rb)
  /\ \/ LinesMeet(ra, rb)
     \/ EndInside(ra, rb)
     \/ EndInside(rb, ra)

\* polygon.intersects(&hexagon)
intersects(polygon, hexagon) ==
  One({
                                                      RingsIntersect(ra, rb)
    : ra \in {ClosedRing(polygon)}, rb \in {hexagon} })

(***************************************************************************)
(* HexGrid: src/src/api/hex_grid.rs                                        *)
(***************************************************************************)
HexGrid(cells, zoom_level) == [cells |-> cells, zoom_level |-> zoom_level]

\* Mutation of RowColRange: the columns outside, the rows inside.
ColumnMajorRange(min_row, max_row, min_col, max_col) ==
  LET nc == max_col - min_col + 1
      nr == max_row - min_row + 1
  IN  [k \in 1..(nr * nc) |->
         <<min_row + ((k - 1) % nr), min_col + ((k - 1) \div nr)>>]

\* (min_row..=max_row).flat_map(|row| (min_col..=max_col).map(|col| (row, col)))
RowColRange(min_row, max_row, min_col, max_col) ==
  LET nc == max_col - min_col + 1
      nr == max_row - min_row + 1
  IN  [k \in 1..(nr * nc) |->
         <<min_row + ((k - 1) \div nc), min_col + ((k - 1) % nc)>>]

\* Mutation of candidate_cell: a centre beyond GRID_EXTENTS' maximum is
\* dropped too.
candidate_cell_within_extent(row, col, zoom_level) ==
  One({
    IF \/ F64Lt(center.x, GRID_EXTENTS[1]) \/ F64Lt(center.y, GRID_EXTENTS[2])
       \/ F64Lt(GRID_EXTENTS[3], center.x) \/ F64Lt(GRID_EXTENTS[4], center.y)
      THEN [tag |-> "None"]
      ELSE [tag |-> "Some",
            val |-> HexCell(generate_hex_identifier(center.x, center.y, zoom_level),
                            center, zoom_level, row, col)]
    : center \in {hex_to_point(row, col, zoom_level).val} })

\* The filter_map closure of generate_cells_for_extent: the cell of a
\* candidate, or None when its centre lies below the origin on an axis.
candidate_cell(row, col, zoom_level) ==
  One({
    IF F64Lt(center.x, GRID_EXTENTS[1]) \/ F64Lt(center.y, GRID_EXTENTS[2])
      THEN [tag |-> "None"]
      ELSE [tag |-> "Some",
            val |-> HexCell(generate_hex_identifier(center.x, center.y, zoom_level),
                            center, zoom_level, row, col)]
    : center \in {hex_to_point(row, col, zoom_level).val} })

\* The values of the Some results, in order.
RECURSIVE FlattenSome(_)
FlattenSome(opts) ==
  IF opts = <<>> THEN <<>>
  ELSE (IF Head(opts).tag = "Some" THEN <<Head(opts).val>> ELSE <<>>)
         \o FlattenSome(Tail(opts))

\* The (row, col) candidates of an extent, row-major; empty for zoom > 15.
extent_candidates(min_x, min_y, max_x, max_y, zoom_level) ==
  IF zoom_level > MAX_ZOOM_LEVEL THEN <<>>
  ELSE One({
         LET ll == lower[1]
             lr == lower[2]
             ur == upper[1]
             ul == upper[2]
             min_row == Min2(Min2(ll[1], lr[1]), Min2(ur[1], ul[1]))
             max_row == Max2(Max2(ll[1], lr[1]), Max2(ur[1], ul[1]))
             min_col == Min2(Min2(ll[2], lr[2]), Min2(ur[2], ul[2]))
             max_col == Max2(Max2(ll[2], lr[2]), Max2(ur[2], ul[2]))
         IN  RowColRange(min_row, max_row, min_col, max_col) \o << >>
         : lower \in {<<point_to_hex(min_x, min_y, zoom_level).val,
               point_to_hex(max_x, min_y, zoom_level).val>>},
           upper \in {<<point_to_hex(max_x, max_y, zoom_level).val,
               point_to_hex(min_x, max_y, zoom_level).val>>} })

\* The cells of the candidates, in order.
candidate_cells_of(cand0, zoom_level) ==
  One({
    FlattenSome([k \in 1..Len(cand) |->
                   candidate_cell(cand[k][1], cand[k][2], zoom_level)] \o << >>)
    : cand \in {cand0} })

\* Mutation of generate_cells_for_extent: a zoom above MAX_ZOOM_LEVEL is
\* clamped to it.
generate_cells_clamped(min_x, min_y, max_x, max_y, zoom_level) ==
  candidate_cells_of(extent_candidates(min_x, min_y, max_x, max_y,
                                       Min2(zoom_level, MAX_ZOOM_LEVEL)),
                     Min2(zoom_level, MAX_ZOOM_LEVEL))

\* generate_cells_for_extent(min_x, min_y, max_x, max_y, zoom_level)
generate_cells_for_extent(min_x, min_y, max_x, max_y, zoom_level) ==
  candidate_cells_of(extent_candidates(min_x, min_y, max_x, max_y, zoom_level),
                     zoom_level)

\* HexGrid::from_extent / from_rect / from_bng_extent
from_bng_extent(min, max, zoom_level) ==
  HexGrid(generate_cells_for_extent(min.x, min.y, max.x, max.y, zoom_level),
          zoom_level)

\* Mutation of polygon_keeps: the cell is kept when its centre lies in the
\* polygon.
polygon_keeps_centre(polygon, cell) ==
  PointInRing(cell.center, ClosedRing(polygon))

\* The filter closure of from_bng_polygon.
polygon_keeps(polygon, cell) == intersects(polygon, to_polygon(cell))

\* The cells a filter keeps, in order: kept[k] is the closure's answer for the
\* k-th cell.
filter_cells(cells0, kept0) ==
  One({
    FlattenSome([k \in 1..Len(cells) |->
                   IF kept[k] THEN [tag |-> "Some", val |-> cells[k]]
                   ELSE [tag |-> "None"]])
    : cells \in {cells0}, kept \in {kept0} })

\* HexGrid::from_bng_polygon(polygon, zoom_level)
from_bng_polygon(polygon, zoom_level) ==
  One({
    IF bbox.tag = "None" THEN HexGrid(<<>>, zoom_level)
    ELSE One({
           HexGrid(filter_cells(cells,
                                [k \in 1..Len(cells) |->
                                   polygon_keeps(polygon, cells[k])]),
                   zoom_level)
           : cells \in {generate_cells_for_extent(bbox.min.x, bbox.min.y,
                                                  bbox.max.x, bbox.max.y,
                                                  zoom_level)} })
    : bbox \in {bounding_rect(polygon)} })

\* Mutation of dedup_by_id: only a cell equal in id to the one just before it
\* is removed (Vec::dedup_by_key).
dedup_adjacent(cells0) ==
  One({
    FlattenSome([i \in 1..Len(cells) |->
                   IF i = 1 \/ cells[i - 1].id # cells[i].id
                     THEN [tag |-> "Some", val |-> cells[i]]
                     ELSE [tag |-> "None"]])
    : cells \in {cells0} })

\* Mutation of dedup_by_id: nothing is removed.
keep_duplicates(cells) == cells

\* .filter(|cell| seen_ids.insert(cell.id.clone())): the first cell of each id.
dedup_by_id(cells0) ==
  One({
    FlattenSome([i \in 1..Len(cells) |->
                   IF \A j \in 1..(i - 1) : cells[j].id # cells[i].id
                     THEN [tag |-> "Some", val |-> cells[i]]
                     ELSE [tag |-> "None"]])
    : cells \in {cells0} })

\* HexGrid::from_bng_multipolygon(multipolygon, zoom_level)
from_bng_multipolygon(multipolygon, zoom_level) ==
  HexGrid(dedup_by_id(Concat([i \in 1..Len(multipolygon) |->
                                from_bng_polygon(multipolygon[i], zoom_level).cells])),
          zoom_level)

\* The first cell a predicate holds of, if any (iter().find): hit[i] is the
\* closure's answer for the i-th cell.
find_cell(cells0, hit) ==
  One({
    IF hits = {} THEN [tag |-> "None"]
    ELSE [tag |-> "Some",
          val |-> cells[CHOOSE i \in hits : \A j \in hits : i <= j]]
    : cells \in {cells0}, hits \in {{i \in 1..Len(hit) : hit[i]}} })

\* Mutation of get_cell_at: the lookup compares the row only.
get_cell_in_row(grid, point) ==
  One({
    IF rc.tag = "Err" THEN [tag |-> "None"]
    ELSE find_cell(grid.cells,
                   [i \in 1..Len(grid.cells) |->
                      grid.cells[i].row = rc.val[1]])
    : rc \in {point_to_hex(point.x, point.y, grid.zoom_level)} })

\* HexGrid::get_cell_at(point): the first cell of the point's (row, col).
get_cell_at(grid, point) ==
  One({
    IF rc.tag = "Err" THEN [tag |-> "None"]
    ELSE find_cell(grid.cells,
                   [i \in 1..Len(grid.cells) |->
                      grid.cells[i].row = rc.val[1]
                      /\ grid.cells[i].col = rc.val[2]])
    : rc \in {point_to_hex(point.x, point.y, grid.zoom_level)} })

(***************************************************************************)
(* Line coverage: HexCell::from_line_string_bng, src/src/cell.rs           *)
(***************************************************************************)
(***************************************************************************)
(* std::collections::HashSet<(i64, i64)>, as from_line_string_bng uses it: *)
(* with_capacity, insert, and the order of iter().  The table is the       *)
(* standard library's (hashbrown): a power of two of buckets, a value put  *)
(* in the first free bucket of the probe sequence of its hash, and all     *)
(* values moved to a larger table when the set is full.  keys gives the    *)
(* hash of a value under the keys the set's RandomState has drawn.         *)
(***************************************************************************)
\* A bucket without a value.
EMPTY == [tag |-> "EMPTY"]

\* The buckets a group of control bytes covers (SSE2).
GROUP_WIDTH == 16

\* The hash of a value under the keys of a set.
make_hash(keys, value) == IF value \in DOMAIN keys THEN keys[value] ELSE 0

\* usize::next_power_of_two
next_power_of_two(n) ==
  CHOOSE p \in {2 ^ k : k \in 0..30} :
    p >= n /\ \A q \in {2 ^ k : k \in 0..30} : q >= n => p <= q

\* The buckets of a table made for cap values.
capacity_to_buckets(cap) ==
  IF cap < 4 THEN 4
  ELSE IF cap < 8 THEN 8
  ELSE next_power_of_two((cap * 8) \div 7)

\* The values a table of so many buckets takes before it grows.
bucket_mask_to_capacity(buckets) ==
  IF buckets = 0 THEN 0
  ELSE IF buckets <= 8 THEN buckets - 1
  ELSE (buckets \div 8) * 7

\* HashSet::with_capacity(capacity): no table for capacity 0.
hash_set_with_capacity(keys, capacity) ==
  [keys |-> keys,
   slots |-> IF capacity = 0 THEN << >>
             ELSE [i \in 1..capacity_to_buckets(capacity) |-> EMPTY] \o << >>]

\* The values a set holds.
hash_set_len(seen) ==
  Cardinality({i \in 1..Len(seen.slots) : seen.slots[i] # EMPTY})

\* The n-th bucket (from 0) of the probe sequence that starts at pos: group
\* after group at growing strides, in a group bucket after bucket; a table
\* smaller than a group is one group that wraps around.
probe_index(buckets, pos, n) ==
  IF buckets < GROUP_WIDTH THEN (pos + n) % buckets
  ELSE (pos + GROUP_WIDTH * (((n \div GROUP_WIDTH) * ((n \div GROUP_WIDTH) + 1)) \div 2)
            + (n % GROUP_WIDTH)) % buckets

\* The bucket (from 0) a new value of this hash goes to: the first free one
\* of its probe sequence.
find_insert_slot(slots, hash) ==
  One({
    probe_index(Len(slots), pos,
                CHOOSE n \in 0..(Len(slots) - 1) :
                  /\ slots[probe_index(Len(slots), pos, n) + 1] = EMPTY
                  /\ \A m \in 0..(n - 1) :
                       slots[probe_index(Len(slots), pos, m) + 1] # EMPTY)
    : pos \in {hash % Len(slots)} })

\* The table with the value in its bucket.
hash_set_put(slots, keys, value) ==
  [slots EXCEPT ![find_insert_slot(slots, make_hash(keys, value)) + 1] = Some(value)]

\* resize: the values of the old table, bucket after bucket, are put into
\* the new one.
RECURSIVE move_slots(_, _, _, _)
move_slots(old, i, keys, new) ==
  IF i > Len(old) THEN new
  ELSE move_slots(old, i + 1, keys,
                  IF old[i] = EMPTY THEN new ELSE hash_set_put(new, keys, old[i].val))

\* reserve(1): a set that is full gets a table for one value more.
hash_set_reserve(seen) ==
  IF hash_set_len(seen) < bucket_mask_to_capacity(Len(seen.slots)) THEN seen
  ELSE [seen EXCEPT !.slots =
          move_slots(seen.slots, 1, seen.keys,
                     [i \in 1..capacity_to_buckets(
                                 bucket_mask_to_capacity(Len(seen.slots)) + 1)
                        |-> EMPTY] \o << >>)]

\* The buckets of the j-th group (from 0) of a probe sequence.
probe_group(buckets, pos, j) ==
  { probe_index(buckets, pos, GROUP_WIDTH * j + o) + 1
    : o \in 0..(Min2(GROUP_WIDTH, buckets) - 1) }

\* find: the groups of the value's probe sequence are searched up to the
\* first one with a free bucket.
hash_set_contains(seen, value) ==
  /\ seen.slots # << >>
  /\ \E pos \in {make_hash(seen.keys, value) % Len(seen.slots)} :
       \E j \in 0..(Max2(1, Len(seen.slots) \div GROUP_WIDTH) - 1) :
         /\ \E i \in probe_group(Len(seen.slots), pos, j) :
              seen.slots[i] = Some(value)
         /\ \A g \in 0..(j - 1) :
              \A i \in probe_group(Len(seen.slots), pos, g) :
                seen.slots[i] # EMPTY

\* Mutation of hash_set_insert: every value counts as new.
hash_set_insert_always(seen, value) ==
  One({
    [new |-> TRUE,
     set |-> IF hash_set_contains(grown, value) THEN grown
             ELSE [grown EXCEPT !.slots = hash_set_put(@, grown.keys, value)]]
    : grown \in {hash_set_reserve(seen)} })

\* seen.insert(value): whether the value was new, and the set afterwards.
\* Room for one value is reserved first; a value the set holds leaves the
\* buckets as they are, a new one takes a free bucket.
hash_set_insert(seen, value) ==
  One({
    IF hash_set_contains(grown, value) THEN [new |-> FALSE, set |-> grown]
    ELSE [new |-> TRUE,
          set |-> [grown EXCEPT !.slots = hash_set_put(@, grown.keys, value)]]
    : grown \in {hash_set_reserve(seen)} })

\* seen.iter(): the values bucket after bucket.
hash_set_iter(seen) == FlattenSome(seen.slots)

\* step_size = cell_radius * 0.5
step_size(zoom) == F64Mul(CELL_RADIUS[zoom + 1], F64Half)

\* segment_length = (dx * dx + dy * dy).sqrt()
segment_length(start, end) ==
  One({
    F64Sqrt(F64Add(F64Mul(dx, dx), F64Mul(dy, dy)))
    : dx \in {F64Sub(end.x, start.x)}, dy \in {F64Sub(end.y, start.y)} })

\* Mutation of segment_steps: a segment has one step at least.
segment_steps_at_least_one(start, end, zoom) ==
  Max2(1, F64CeilAsUsize(F64Div(segment_length(start, end), step_size(zoom))))

\* steps = (segment_length / step_size).ceil() as usize
segment_steps(start, end, zoom) ==
  F64CeilAsUsize(F64Div(segment_length(start, end), step_size(zoom)))

\* The sample i of a segment: t = i as f64 / steps as f64, or 0.0 when
\* steps = 0; x = start.x + t * dx, y = start.y + t * dy.
segment_sample(start, end, i, steps) ==
  One({
    [x |-> F64Add(start.x, F64Mul(t, F64Sub(end.x, start.x))),
     y |-> F64Add(start.y, F64Mul(t, F64Sub(end.y, start.y)))]
    : t \in {IF steps = 0 THEN F64Zero ELSE F64Div(F64FromInt(i), F64FromInt(steps))} })

\* for i in 0..=steps
segment_samples(start, end, zoom) ==
  One({
    [k \in 1..(steps + 1) |-> segment_sample(start, end, k - 1, steps)] \o << >>
    : steps \in {segment_steps(start, end, zoom)} })

\* total_length: the sum of the lengths of the segments.
RECURSIVE total_length(_, _)
total_length(line, w) ==
  IF w < 1 THEN F64Zero
  ELSE F64Add(total_length(line, w - 1), segment_length(line[w], line[w + 1]))

\* estimated_cells = ((total_length / cell_radius) * 1.5) as usize + line.0.len()
estimated_cells(line, zoom) ==
  F64AsUsize(F64Mul(F64Div(total_length(line, Len(line) - 1), CELL_RADIUS[zoom + 1]),
                    F64OneAndHalf))
    + Len(line)

\* for window in line.0.windows(2): the samples of every segment, in order.
line_samples(line, zoom) ==
  IF Len(line) < 2 THEN << >>
  ELSE Concat([w \in 1..(Len(line) - 1) |->
                 segment_samples(line[w], line[w + 1], zoom)] \o << >>)

\* let (row, col) = point_to_row_col(&(x, y), zoom)?, for every sample in
\* turn (zoom <= MAX_ZOOM_LEVEL).
sample_row_cols(samples0, zoom) ==
  One({
    [k \in 1..Len(samples) |->
       point_to_hex(samples[k].x, samples[k].y, zoom).val] \o << >>
    : samples \in {samples0} })

\* Mutation of push_if_new: the cells are listed in the order in which the
\* set of seen pairs holds them.
push_in_set_order(acc, rc, zoom) ==
  One({
    [seen |-> ins.set,
     cells |-> One({
                 [k \in 1..Len(order) |->
                    cell_at(order[k][1], order[k][2], zoom)] \o << >>
                 : order \in {hash_set_iter(ins.set)} })]
    : ins \in {hash_set_insert(acc.seen, rc)} })

\* if seen.insert((row, col)) { .. cells.push(HexCell::new(..)) }
push_if_new(acc, rc, zoom) ==
  One({
    [seen |-> ins.set,
     cells |-> IF ins.new THEN Append(acc.cells, cell_at(rc[1], rc[2], zoom))
               ELSE acc.cells]
    : ins \in {hash_set_insert(acc.seen, rc)} })

\* The body of the two loops, taken sample by sample from sample k on: seen
\* and cells when the loops end.
RECURSIVE walk_samples(_, _, _, _)
walk_samples(rcs, k, zoom, acc0) ==
  One({
    IF k > Len(rcs) THEN acc
    ELSE walk_samples(rcs, k + 1, zoom, push_if_new(acc, rcs[k], zoom))
    : acc \in {acc0} })

\* HexCell::from_line_string_bng up to the creation of seen and cells, with
\* the (row, col) of the samples the loops will take: CELL_RADIUS[zoom as
\* usize] is read first and is out of bounds for zoom > 15.
from_line_string_setup(line, zoom) ==
  IF zoom > MAX_ZOOM_LEVEL THEN Panic("index out of bounds")
  ELSE Ok([rcs |-> sample_row_cols(line_samples(line, zoom), zoom),
           estimated_cells |-> estimated_cells(line, zoom)])

\* The rest of the call: seen and cells are created, the loops run, Ok(cells)
\* is returned and seen is dropped.  keys are the keys of the HashSet the
\* call creates; seen is seen.iter() as the set is dropped.
from_line_string_loops(setup, zoom, keys) ==
  IF setup.tag = "Panic" THEN [ret |-> setup, seen |-> << >>]
  ELSE One({
         [ret |-> Ok(acc.cells), seen |-> hash_set_iter(acc.seen)]
         : acc \in {walk_samples(
                      setup.val.rcs, 1, zoom,
                      [seen |-> hash_set_with_capacity(keys, setup.val.estimated_cells),
                       cells |-> << >>])} })

\* One run of HexCell::from_line_string_bng(line, zoom): what it returns and
\* seen.iter() of the HashSet it drops on return.
from_line_string_run(line, zoom, keys) ==
  from_line_string_loops(from_line_string_setup(line, zoom), zoom, keys)

\* HexCell::from_line_string_bng(line, zoom)
from_line_string_bng(line, zoom, keys) == from_line_string_run(line, zoom, keys).ret

\* Keys under which every value has the hash 0.
ZeroKeys == [value \in {} |-> 0]
(***************************************************************************)
(* Geometry dispatch: HexCell::from_geometry, src/src/cell.rs; the         *)
(* centroid of a polygon is geo's Centroid                                 *)
(***************************************************************************)
\* Coord + Coord, Coord - Coord, Coord * f64, Coord / f64
CoordAdd(a, b) == [x |-> F64Add(a.x, b.x), y |-> F64Add(a.y, b.y)]

CoordSub(a, b) == [x |-> F64Sub(a.x, b.x), y |-> F64Sub(a.y, b.y)]

CoordMul(a, t0) == One({
                                       [x |-> F64Mul(a.x, t), y |-> F64Mul(a.y, t)]
                     : t \in {t0} })

CoordDiv(a, t0) == One({
                                       [x |-> F64Div(a.x, t), y |-> F64Div(a.y, t)]
                     : t \in {t0} })

CoordZero == [x |-> F64Zero, y |-> F64Zero]

\* line.determinant() of the line a -> b
determinant(a, b) == F64Sub(F64Mul(a.x, b.y), F64Mul(a.y, b.x))

\* The ring's coordinates less its first one.
ShiftedRing(ring) == [i \in 1..Len(ring) |-> CoordSub(ring[i], ring[1])] \o << >>

\* The sum of the determinants of the lines k.. of a shifted ring, added
\* to tmp in order.
RECURSIVE SumDeterminants(_, _, _)
SumDeterminants(c, k, tmp) ==
  IF k >= Len(c) THEN tmp
  ELSE SumDeterminants(c, k + 1, F64Add(tmp, determinant(c[k], c[k + 1])))

\* twice_signed_ring_area(ring) of a closed ring
twice_signed_ring_area(ring) ==
  IF Len(ring) < 3 THEN F64Zero
  ELSE SumDeterminants(ShiftedRing(ring), 1, F64Zero)

\* get_linear_ring_area(ring)
get_linear_ring_area(ring) == F64Div(twice_signed_ring_area(ring), F64Two)

\* accum + (line.end + line.start) * line.determinant(), over the lines k..
RECURSIVE AccumulateLines(_, _, _)
AccumulateLines(c, k, accum) ==
  IF k >= Len(c) THEN accum
  ELSE AccumulateLines(c, k + 1,
         CoordAdd(accum, CoordMul(CoordAdd(c[k + 1], c[k]),
                                  determinant(c[k], c[k + 1]))))

\* x.hypot(y): the root of the exact sum of the squares, rounded once
F64Hypot(x, y) == F64Sqrt(ExactAdd(ExactMul(x, x), ExactMul(y, y)))

\* A WeightedCentroid of the given dimensions: accumulated = centroid * weight
WeightedCentroid(dimensions, centroid, weight0) ==
  One({
    [dimensions |-> dimensions, weight |-> weight,
     accumulated |-> CoordMul(centroid, weight)]
    : weight \in {weight0} })

\* WeightedCentroid::add_assign: the higher dimensions win, equal ones add up.
add_assign(a, b) ==
  IF a.dimensions < b.dimensions THEN b
  ELSE IF a.dimensions > b.dimensions THEN a
  ELSE [dimensions |-> a.dimensions,
        weight |-> F64Add(a.weight, b.weight),
        accumulated |-> CoordAdd(a.accumulated, b.accumulated)]

\* add_coord: a point weighs 1
coord_centroid(c) == WeightedCentroid(0, c, F64FromInt(1))

\* add_line: a line of no length counts as its start; any other weighs its
\* length at its middle.
line_centroid(start, end) ==
  IF SameCoord(start, end) THEN coord_centroid(start)
  ELSE WeightedCentroid(1, CoordDiv(CoordAdd(start, end), F64Two),
                        F64Hypot(F64Sub(end.x, start.x), F64Sub(end.y, start.y)))

\* add_line_string on an empty operation, from line k on
RECURSIVE line_string_centroid(_, _, _)
line_string_centroid(ring, k, acc0) ==
  One({
    IF k >= Len(ring) THEN acc
    ELSE line_string_centroid(ring, k + 1,
           add_assign(acc, line_centroid(ring[k], ring[k + 1])))
    : acc \in {acc0} })

\* add_ring on an empty operation: None for an empty ring; the point or
\* the line string for a ring without area; otherwise
\* accumulated / (6 * area) + shift, weighing |area|.
ring_centroid(ring) ==
  One({
    IF area = F64Zero
      THEN IF ring = << >> THEN [tag |-> "None"]
           ELSE IF Len(ring) = 1 THEN Some(coord_centroid(ring[1]))
           ELSE Some(line_string_centroid(ring, 2, line_centroid(ring[1], ring[2])))
    ELSE Some(WeightedCentroid(2,
                CoordAdd(CoordDiv(AccumulateLines(ShiftedRing(ring), 1, CoordZero),
                                  F64Mul(F64FromInt(6), area)),
                         ring[1]),
                F64Abs(area)))
    : area \in {get_linear_ring_area(ring)} })

\* poly.centroid(): accumulated / weight of the exterior ring's centroid
polygon_centroid(polygon) ==
  One({
    IF weighted.tag = "None" THEN weighted
    ELSE Some(CoordDiv(weighted.val.accumulated, weighted.val.weight))
    : weighted \in {ring_centroid(ClosedRing(polygon))} })

\* `?` over the results of a loop: the first result that is not Ok ends the
\* call; otherwise the lists are appended in order (extend / push).
RECURSIVE Collected(_)
Collected(results0) ==
  One({
    IF results = << >> THEN Ok(<< >>)
    ELSE IF Head(results).tag # "Ok" THEN Head(results)
    ELSE One({
           IF rest.tag # "Ok" THEN rest ELSE Ok(Head(results).val \o rest.val)
           : rest \in {Collected(Tail(results))} })
    : results \in {results0} })

\* vec![cell] of a constructor's result.
OneCell(result0) ==
  One({
    IF result.tag = "Ok" THEN Ok(<<result.val>>) ELSE result
    : result \in {result0} })

\* The cell of a polygon's centroid, if it has one.
centroid_cell(polygon, zoom) ==
  One({
    IF centroid.tag = "Some"
      THEN OneCell(from_bng(centroid.val.x, centroid.val.y, zoom))
      ELSE Ok(<< >>)
    : centroid \in {polygon_centroid(polygon)} })

\* Mutation of multi_point_cells: a point whose cell is already in the list
\* adds nothing.
multi_point_cells_unique(points, zoom) ==
  One({
                    IF all.tag = "Ok" THEN Ok(dedup_by_id(all.val)) ELSE all
    : all \in {Collected([i \in 1..Len(points) |->
                    OneCell(from_bng(points[i].x, points[i].y, zoom))] \o << >>)} })

\* Geometry::MultiPoint(mp)
multi_point_cells(points, zoom) ==
  Collected([i \in 1..Len(points) |->
               OneCell(from_bng(points[i].x, points[i].y, zoom))] \o << >>)

\* A geo_types::Geometry: its kind and what it holds.
Geometry(kind, of) == [kind |-> kind, of |-> of]

\* HexCell::from_geometry(geom, zoom, Crs::Bng); a line's HashSet is created
\* inside the call.
RECURSIVE from_geometry(_, _)
from_geometry(geom, zoom) ==
  CASE geom.kind = "Point" ->
         OneCell(from_bng(geom.of.x, geom.of.y, zoom))
    [] geom.kind = "LineString" ->
         from_line_string_bng(geom.of, zoom, ZeroKeys)
    [] geom.kind = "MultiLineString" ->
         Collected([i \in 1..Len(geom.of) |->
                      from_line_string_bng(geom.of[i], zoom, ZeroKeys)] \o << >>)
    [] geom.kind = "Polygon" ->
         centroid_cell(geom.of, zoom)
    [] geom.kind = "MultiPolygon" ->
         Collected([i \in 1..Len(geom.of) |-> centroid_cell(geom.of[i], zoom)]
                     \o << >>)
    [] geom.kind = "MultiPoint" ->
         multi_point_cells(geom.of, zoom)
    [] geom.kind = "GeometryCollection" ->
         Collected([i \in 1..Len(geom.of) |-> from_geometry(geom.of[i], zoom)]
                     \o << >>)
    [] OTHER ->
         Err(<<"GeometryParseError", "Unsupported geometry type">>)

(***************************************************************************)
(* Bounds of the explored inputs                                           *)
(***************************************************************************)
\* Points lie on a lattice of quarters of the cell width, from -LatticeBelow
\* to LatticeAbove steps on each axis.
LatticeBelow == 2

LatticeAbove == 5

\* Extents start 3 lattice steps below, at, or 5 steps above the origin and
\* span up to ExtentSpan steps.
ExtentSpan == 4

\* Re-applications of the snap that are followed.
MaxResnap == 2

\* Candidates of a call whose schedules are explored, those of all its
\* sub-polygons together.
MaxParItems == 4

\* Zoom levels whose index, cells and grids are explored; 16 is invalid.
IndexZooms == {10, 15, 16}

GridZooms == {2, 15, 16}

\* The width used to lay out inputs for a zoom level, valid or not.
LayoutWidth(z) == CELL_WIDTHS[Min2(z, MAX_ZOOM_LEVEL) + 1]

\* The point (kx / d, ky / d) cell widths from the origin; d is a power of
\* two, so that the coordinates are these very numbers.
WidthsPoint(kx, ky, d, z) ==
  [x |-> F64Mul(F64Ratio(kx, d), LayoutWidth(z)),
   y |-> F64Mul(F64Ratio(ky, d), LayoutWidth(z))]

LatticePoint(kx, ky, z) == WidthsPoint(kx, ky, 4, z)

\* The maximum of the national extent GRID_EXTENTS.
NationalMax == [x |-> GRID_EXTENTS[3], y |-> GRID_EXTENTS[4]]

ExtentStarts == {-3, 0, 5}

ExtentSpans == {0, 2, ExtentSpan}

ExtentInputs(z) ==
  {[min |-> LatticePoint(ax, ay, z), max |-> LatticePoint(ax + sx, ay + sy, z)] :
     ax \in ExtentStarts, ay \in ExtentStarts,
     sx \in ExtentSpans, sy \in ExtentSpans}
  \cup (IF z = 2 THEN {[min |-> [x |-> GRID_EXTENTS[1], y |-> GRID_EXTENTS[2]],
                        max |-> NationalMax]}
        ELSE {})

\* Polygons, in sixteenths of the cell width: a triangle, two overlapping
\* rectangles, a rectangle across the origin, and the polygon without
\* coordinates.
PolygonShapes ==
  << << <<6, 2>>, <<38, 2>>, <<6, 34>> >>,
     << <<18, 17>>, <<42, 17>>, <<42, 34>>, <<18, 34>>, <<18, 17>> >>,
     << <<2, 22>>, <<26, 22>>, <<26, 46>>, <<2, 46>>, <<2, 22>> >>,
     << <<-22, -10>>, <<10, -10>>, <<10, 18>>, <<-22, 18>> >>,
     << >> >>

PolygonInput(k, z) ==
  [i \in 1..Len(PolygonShapes[k]) |->
     WidthsPoint(PolygonShapes[k][i][1], PolygonShapes[k][i][2], 16, z)] \o << >>

PolygonIds == 1..Len(PolygonShapes)

\* The triangle of test_from_bng_polygon_filters_cells and its zoom.
TestTriangleZoom == 10

TestTriangle ==
  << [x |-> F64FromInt(457000), y |-> F64FromInt(339500)],
     [x |-> F64FromInt(458000), y |-> F64FromInt(339500)],
     [x |-> F64FromInt(457500), y |-> F64FromInt(340500)],
     [x |-> F64FromInt(457000), y |-> F64FromInt(339500)] >>

\* The (polygon, zoom) arguments of from_bng_polygon.
PolygonCalls ==
  {<<PolygonInput(k, zoom), zoom>> : k \in PolygonIds, zoom \in GridZooms}
    \cup {<<TestTriangle, TestTriangleZoom>>}

\* Multipolygons: sequences of one to three of the polygons above.
MultiPolygonShapes ==
  { <<1>>, <<2, 3>>, <<3, 2>>, <<1, 1>>, <<2, 5, 3>>, <<4, 1>>, << >>, <<4, 4>> }

MultiPolygonInput(ks, z) == [i \in 1..Len(ks) |-> PolygonInput(ks[i], z)] \o << >>

(***************************************************************************)
(* State: the last call and its result; the parallel job in flight         *)
(***************************************************************************)
NoCall == [fn |-> "none"]

NoRet == [tag |-> "None"]

IdlePar ==
  [phase |-> "idle", kind |-> "none", zoom |-> 0,
   top |-> [items |-> << >>, slots |-> << >>, log |-> << >>], tasks |-> << >>]

Init == call = NoCall /\ ret = NoRet /\ par = IdlePar

(***************************************************************************)
(* Identifier codec operations                                             *)
(***************************************************************************)
\* Coordinates of the codec inputs, in metres: whole millimetres across the
\* national extent, and coordinates between two millimetres, some of them
\* halfway as decimals.
CodecEastings ==
  { F64FromInt(0), F64FromInt(383640), F64Ratio(252086123, 1000),
    F64FromInt(750000), F64Ratio(5005, 10000), F64Ratio(383640025, 100000) }

CodecNorthings ==
  { F64FromInt(0), F64FromInt(398260), F64Ratio(847702123, 1000),
    F64FromInt(1350000), F64Ratio(5015, 10000), F64Ratio(15, 100000) }

CodecInputs ==
  {[easting |-> e, northing |-> n] : e \in CodecEastings, n \in CodecNorthings}

\* generate_hex_identifier(easting, northing, zoom)
Generate(in, zoom) ==
  /\ call = NoCall
  /\ call' = [fn |-> "generate_hex_identifier", in |-> in, zoom |-> zoom]
  /\ ret' = generate_hex_identifier(in.easting, in.northing, zoom)
  /\ UNCHANGED par

\* decode_hex_identifier of the identifier just generated
DecodeGenerated ==
  /\ call.fn = "generate_hex_identifier"
  /\ call' = [fn |-> "decode_hex_identifier", id |-> ret, of |-> call,
              how |-> "intact", arg |-> 0]
  /\ ret' = decode_hex_identifier(ret)
  /\ UNCHANGED par

\* Bit b (0..7) of a byte flipped.
FlipBit(byte, b) ==
  LET w == 2 ^ b
  IN  IF (byte \div w) % 2 = 1 THEN byte - w ELSE byte + w

\* decode_hex_identifier of the identifier just generated with bit b of its
\* 19th byte flipped
DecodeFlipped(b) ==
  /\ call.fn = "generate_hex_identifier"
  /\ LET bytes == Base64Decode(ret).val
         bad == [bytes EXCEPT ![19] = FlipBit(bytes[19], b)]
     IN  /\ call' = [fn |-> "decode_hex_identifier", id |-> Base64Encode(bad),
                     of |-> call, how |-> "flipped", arg |-> b]
         /\ ret' = decode_hex_identifier(Base64Encode(bad))
  /\ UNCHANGED par

\* decode_hex_identifier of the record just generated with version byte v
\* and the checksum recomputed
DecodeVersion(v) ==
  /\ call.fn = "generate_hex_identifier"
  /\ LET bytes == Base64Decode(ret).val
         data == [SubSeq(bytes, 1, 18) EXCEPT ![1] = v]
         skew == data \o <<WrappingSum(data)>>
     IN  /\ call' = [fn |-> "decode_hex_identifier", id |-> Base64Encode(skew),
                     of |-> call, how |-> "version", arg |-> v]
         /\ ret' = decode_hex_identifier(Base64Encode(skew))
  /\ UNCHANGED par

\* Malformed variants of an identifier: a character outside the alphabet at
\* position v ("symbol"; in a string of 24 symbols, "symbol_short"); spare
\* bits v in the last symbol ("trailing"); 25, 24 and 0 symbols ("cut",
\* "short", "empty"); 20 bytes with version byte v ("long"); version byte v
\* with a checksum byte that does not match ("both").
Malform(how, id, v) ==
  LET bytes == Base64Decode(id).val
      data == [SubSeq(bytes, 1, 18) EXCEPT ![1] = v]
  IN  CASE how = "symbol" -> [id EXCEPT ![v] = NotASymbol]
        [] how = "symbol_short" -> [SubSeq(id, 1, 24) EXCEPT ![v] = NotASymbol]
        [] how = "trailing" -> [id EXCEPT ![26] = (id[26] \div 16) * 16 + v]
        [] how = "cut" -> SubSeq(id, 1, 25)
        [] how = "short" -> SubSeq(id, 1, 24)
        [] how = "empty" -> <<>>
        [] how = "long" -> Base64Encode(data \o <<WrappingSum(data), 0>>)
        [] how = "both" ->
             Base64Encode(data \o <<FlipBit(WrappingSum(data), 0)>>)

MalformCases ==
  { <<"symbol", 1>>, <<"symbol", 14>>, <<"symbol", 26>>, <<"symbol_short", 24>>,
    <<"trailing", 1>>, <<"trailing", 8>>, <<"cut", 0>>, <<"short", 0>>,
    <<"empty", 0>>, <<"long", 1>>, <<"long", 2>>,
    <<"both", 0>>, <<"both", 2>>, <<"both", 255>> }

\* decode_hex_identifier of a malformed variant of the identifier just
\* generated
DecodeMalformed(how, v) ==
  /\ call.fn = "generate_hex_identifier"
  /\ call' = [fn |-> "decode_hex_identifier", id |-> Malform(how, ret, v),
              of |-> call, how |-> how, arg |-> v]
  /\ ret' = decode_hex_identifier(Malform(how, ret, v))
  /\ UNCHANGED par

NextCodec ==
  \/ \E in \in CodecInputs, zoom \in 0..MAX_ZOOM_LEVEL : Generate(in, zoom)
  \/ DecodeGenerated
  \/ \E b \in 0..7 : DecodeFlipped(b)
  \/ \E v \in {0, 2, 3, 129, 255} : DecodeVersion(v)
  \/ \E c \in MalformCases : DecodeMalformed(c[1], c[2])

SpecCodec == Init /\ [][NextCodec]_vars

(***************************************************************************)
(* Cell construction operations                                            *)
(***************************************************************************)
\* HexCell::from_bng(&p, zoom)
FromBng(p, zoom) ==
  /\ call = NoCall
  /\ call' = [fn |-> "from_bng", p |-> p, zoom |-> zoom, n |-> 0]
  /\ ret' = from_bng(p.x, p.y, zoom)
  /\ UNCHANGED par

\* HexCell::from_bng applied to the centre of the cell it returned
ReSnap ==
  /\ call.fn = "from_bng" /\ ret.tag = "Ok" /\ call.n < MaxResnap
  /\ call' = [fn |-> "from_bng", p |-> ret.val.center, zoom |-> call.zoom,
              n |-> call.n + 1]
  /\ ret' = from_bng(ret.val.center.x, ret.val.center.y, call.zoom)
  /\ UNCHANGED par

\* HexCell::from_hex_id(&cell.id) of the cell from_bng returned
FromHexId ==
  /\ call.fn = "from_bng" /\ ret.tag = "Ok"
  /\ call' = [fn |-> "from_hex_id", id |-> ret.val.id, of |-> ret.val]
  /\ ret' = from_hex_id(ret.val.id)
  /\ UNCHANGED par

\* HexCell::from_bng of the centre of the cell from_bng returned, moved by
\* dx and dy metres
FromBngNear(dx, dy) ==
  /\ call.fn = "from_bng" /\ ret.tag = "Ok" /\ call.n = 0
  /\ \E p \in {[x |-> F64Add(ret.val.center.x, F64FromInt(dx)),
                y |-> F64Add(ret.val.center.y, F64FromInt(dy))]} :
       /\ call' = [fn |-> "from_bng_near", cell |-> ret.val, p |-> p,
                   zoom |-> call.zoom]
       /\ ret' = from_bng(p.x, p.y, call.zoom)
  /\ UNCHANGED par

\* cell.to_polygon() of the cell a constructor returned; CELL_RADIUS is
\* indexed by the cell's zoom_level.
ToPolygon ==
  /\ call.fn \in {"from_bng", "from_hex_id"} /\ ret.tag = "Ok"
  /\ call' = [fn |-> "to_polygon", cell |-> ret.val, by |-> call.fn]
  /\ ret' = IF ret.val.zoom_level > MAX_ZOOM_LEVEL
              THEN Panic("index out of bounds")
              ELSE Returned(to_polygon(ret.val))
  /\ UNCHANGED par

\* An identifier with byte `at` (1: version, 18: zoom) set to v and the
\* checksum recomputed.
Rewritten(id, at, v) ==
  LET bytes == Base64Decode(id).val
      data == [SubSeq(bytes, 1, 18) EXCEPT ![at] = v]
  IN  Base64Encode(data \o <<WrappingSum(data)>>)

\* The identifier arguments of from_hex_id made of a cell's identifier: the
\* identifier itself, its malformed variants, and well-formed ones with
\* another version or with a zoom byte above MAX_ZOOM_LEVEL.
HexIdCases ==
  MalformCases \cup { <<"intact", 0>>, <<"version", 0>>, <<"version", 2>>,
                      <<"zoom", 16>>, <<"zoom", 200>>, <<"zoom", 255>> }

HexIdArg(id, how, v) ==
  CASE how = "intact" -> id
    [] how = "version" -> Rewritten(id, 1, v)
    [] how = "zoom" -> Rewritten(id, 18, v)
    [] OTHER -> Malform(how, id, v)

\* HexCell::from_hex_id(id) of such an identifier
FromHexIdOf(p, zoom, how, v) ==
  /\ call = NoCall
  /\ zoom <= MAX_ZOOM_LEVEL
  /\ \E cell \in {from_bng(p.x, p.y, zoom).val} :
       \E id \in {HexIdArg(cell.id, how, v)} :
         /\ call' = [fn |-> "from_hex_id", id |-> id, of |-> cell]
         /\ ret' = from_hex_id(id)
  /\ UNCHANGED par

\* Zoom arguments of the index functions: valid ones, and u8 values above
\* MAX_ZOOM_LEVEL.
ZoomArgs == IndexZooms \cup {2, 17, 255}

\* point_to_hex(&p, z)
PointToHex(p, z) ==
  /\ call = NoCall
  /\ call' = [fn |-> "point_to_hex", p |-> p, zoom |-> z]
  /\ ret' = point_to_hex(p.x, p.y, z)
  /\ UNCHANGED par

\* hex_to_point(row, col, z)
HexToPoint(row, col, z) ==
  /\ call = NoCall
  /\ call' = [fn |-> "hex_to_point", row |-> row, col |-> col, zoom |-> z]
  /\ ret' = hex_to_point(row, col, z)
  /\ UNCHANGED par

\* Lattice steps of the points whose index alone is computed, and of the
\* cells whose identifier is rewritten.
SparseSteps == {-LatticeBelow, 0, LatticeAbove}

NextIndex ==
  \/ \E kx \in (-LatticeBelow)..LatticeAbove, ky \in (-LatticeBelow)..LatticeAbove,
        zoom \in IndexZooms :
        \E p \in {LatticePoint(kx, ky, zoom)} : FromBng(p, zoom)
  \/ ReSnap
  \/ FromHexId
  \/ \E kx \in SparseSteps, ky \in SparseSteps, z \in ZoomArgs :
        \E p \in {LatticePoint(kx, ky, z)} : PointToHex(p, z)
  \/ \E dx \in {-1, 0, 1}, dy \in {-1, 0, 1} : FromBngNear(dx, dy)
  \/ ToPolygon
  \/ \E kx \in {0, LatticeAbove}, ky \in {LatticeAbove}, zoom \in IndexZooms, c \in HexIdCases :
        \E p \in {LatticePoint(kx, ky, zoom)} : FromHexIdOf(p, zoom, c[1], c[2])
  \/ \E row \in -MaxResnap..MaxResnap, col \in -MaxResnap..MaxResnap,
        z \in ZoomArgs : HexToPoint(row, col, z)

SpecIndex == Init /\ [][NextIndex]_vars

(***************************************************************************)
(* Grid operations                                                         *)
(***************************************************************************)
\* HexGrid::from_bng_extent(&min, &max, zoom)
FromBngExtent(e, zoom) ==
  /\ call = NoCall
  /\ call' = [fn |-> "from_bng_extent", min |-> e.min, max |-> e.max, zoom |-> zoom]
  /\ ret' = from_bng_extent(e.min, e.max, zoom)
  /\ UNCHANGED par

\* HexGrid::from_bng_polygon(&polygon, zoom)
FromBngPolygon(polygon, zoom) ==
  /\ call = NoCall
  /\ call' = [fn |-> "from_bng_polygon", polygon |-> polygon, zoom |-> zoom]
  /\ ret' = from_bng_polygon(polygon, zoom)
  /\ UNCHANGED par

\* HexGrid::from_bng_multipolygon(&multipolygon, zoom)
FromBngMultipolygon(multipolygon, zoom) ==
  /\ call = NoCall
  /\ call' = [fn |-> "from_bng_multipolygon", multipolygon |-> multipolygon,
              zoom |-> zoom]
  /\ ret' = from_bng_multipolygon(multipolygon, zoom)
  /\ UNCHANGED par

\* grid.get_cell_at(&p) on the extent grid just built, p in the rectangle
GetCellAt(i, j) ==
  /\ call.fn = "from_bng_extent"
  /\ \E step \in {LatticePoint(i, j, call.zoom)} :
       \E p \in {[x |-> F64Add(call.min.x, step.x), y |-> F64Add(call.min.y, step.y)]} :
         /\ F64Le(p.x, call.max.x) /\ F64Le(p.y, call.max.y)
         /\ call' = [fn |-> "get_cell_at", grid |-> ret, min |-> call.min,
                     max |-> call.max, zoom |-> call.zoom, point |-> p]
         /\ ret' = get_cell_at(ret, p)
  /\ UNCHANGED par

NextGrid ==
  \/ \E zoom \in GridZooms : \E e \in ExtentInputs(zoom) : FromBngExtent(e, zoom)
  \/ \E pc \in PolygonCalls : FromBngPolygon(pc[1], pc[2])
  \/ \E zoom \in GridZooms, ks \in MultiPolygonShapes :
       \E multipolygon \in {MultiPolygonInput(ks, zoom)} :
         FromBngMultipolygon(multipolygon, zoom)
  \/ \E i \in 0..ExtentSpan, j \in 0..ExtentSpan : GetCellAt(i, j)

SpecGrid == Init /\ [][NextGrid]_vars

(***************************************************************************)
(* Parallel generation (rayon).  A parallel iterator is a job: its items   *)
(* are handed to the workers, which run the closure on them in any order,  *)
(* each result going to the item's own slot; collect() waits until every   *)
(* slot is filled.  A closure that runs a parallel iterator of its own     *)
(* waits at that collect() while the workers go on with any other item, of *)
(* this or of another job.                                                 *)
(***************************************************************************)
Pending == [tag |-> "Pending"]

\* A job over the items, no closure run yet.
NewJob(items) ==
  [items |-> items, slots |-> [i \in 1..Len(items) |-> Pending], log |-> << >>]

\* The closure has run on item i and left the result.
RunItem(job, i, result) ==
  [job EXCEPT !.slots[i] = result, !.log = Append(@, i)]

JobDone(job) == \A i \in 1..Len(job.items) : job.slots[i] # Pending

\* Mutation of gather_order: the results in the order the workers finished.
completion_order(job) == job.log

\* The order in which collect() assembles the slots: the order of the items.
gather_order(job) == [k \in 1..Len(job.items) |-> k]

\* collect() of a filter or filter_map: the values that were kept.
collect(job) ==
  One({
    FlattenSome([k \in 1..Len(order) |-> job.slots[order[k]]] \o << >>)
    : order \in {gather_order(job)} })

\* The parallel iterators a task goes through, one after the other:
\*   "generate"  generate_cells_for_extent: .into_par_iter().filter_map(..)
\*   "filter"    from_bng_polygon: candidate_cells.into_par_iter().filter(..)
\*   "emit"      flat_map of from_bng_multipolygon over the Vec its closure
\*               returned
\*   "map"       to_polygons: self.cells.par_iter().map(..)
\* A task is "idle" before and "done" after them, out being what it made.
Task(stage, job, out) == [stage |-> stage, job |-> job, out |-> out]

IdleTask == Task("idle", NewJob(<< >>), << >>)

\* What the closure of a stage makes of an item.
stage_closure(stage, item, polygon, zoom) ==
  IF stage = "generate" THEN candidate_cell(item[1], item[2], zoom)
  ELSE IF stage = "filter"
    THEN (IF polygon_keeps(polygon, item) THEN Some(item) ELSE NoRet)
  ELSE IF stage = "emit" THEN Some(item)
  ELSE Some(to_polygon(item))

\* The stage that follows the collect() of a stage.
next_stage(kind, stage) ==
  IF stage = "generate" THEN (IF kind = "extent" THEN "done" ELSE "filter")
  ELSE IF stage = "filter" THEN (IF kind = "polygon" THEN "done" ELSE "emit")
  ELSE "done"

\* A task enters a stage with the items found so far.
enter_stage(task, stage, items) ==
  IF stage = "done" THEN Task("done", task.job, items)
  ELSE Task(stage, NewJob(items), << >>)

\* The sequential start of a task up to its first parallel iterator.
\* generate_cells_for_extent returns Vec::new() for a zoom above 15, before
\* any iterator; from_bng_polygon returns no cells for a polygon without
\* bounding rectangle.
begin_task(kind, item, zoom) ==
  IF kind = "to_polygons" THEN enter_stage(IdleTask, "map", item)
  ELSE IF kind = "extent"
    THEN One({
           IF zoom > MAX_ZOOM_LEVEL THEN enter_stage(IdleTask, "done", << >>)
           ELSE enter_stage(IdleTask, "generate", cand)
           : cand \in {extent_candidates(item.min.x, item.min.y,
                                         item.max.x, item.max.y, zoom)} })
  ELSE One({
         IF bbox.tag = "None"
           THEN enter_stage(IdleTask, next_stage(kind, "filter"), << >>)
         ELSE IF zoom > MAX_ZOOM_LEVEL
           THEN enter_stage(IdleTask, "filter", << >>)
         ELSE enter_stage(IdleTask, "generate",
                          extent_candidates(bbox.min.x, bbox.min.y,
                                            bbox.max.x, bbox.max.y, zoom))
         : bbox \in {bounding_rect(item)} })

\* The candidates the tasks of a call will go through.
task_candidates(kind, item, zoom) ==
  IF kind = "to_polygons" THEN Len(item)
  ELSE IF kind = "extent"
    THEN Len(extent_candidates(item.min.x, item.min.y, item.max.x, item.max.y,
                               zoom))
  ELSE One({
         IF bbox.tag = "None" THEN 0
         ELSE Len(extent_candidates(bbox.min.x, bbox.min.y,
                                    bbox.max.x, bbox.max.y, zoom))
         : bbox \in {bounding_rect(item)} })

\* A call starts: top is the job over its tasks (one task for a call that is
\* no parallel iterator over tasks itself).
StartJob(kind, zoom, items) ==
  /\ par.phase = "idle"
  /\ Len(items) <= MaxParItems
  /\ SumSeq([t \in 1..Len(items) |-> task_candidates(kind, items[t], zoom)] \o << >>)
       <= MaxParItems
  /\ par' = [phase |-> "running", kind |-> kind, zoom |-> zoom,
             top |-> NewJob(items),
             tasks |-> [t \in 1..Len(items) |-> IdleTask]]
  /\ ret' = NoRet

\* HexGrid::from_bng_extent(&min, &max, zoom) is called
StartExtent(e, zoom) ==
  /\ call = NoCall
  /\ StartJob("extent", zoom, <<e>>)
  /\ call' = [fn |-> "from_bng_extent", min |-> e.min, max |-> e.max, zoom |-> zoom]

\* HexGrid::from_bng_polygon(&polygon, zoom) is called
StartPolygon(polygon, zoom) ==
  /\ call = NoCall
  /\ StartJob("polygon", zoom, <<polygon>>)
  /\ call' = [fn |-> "from_bng_polygon", polygon |-> polygon, zoom |-> zoom]

\* HexGrid::from_bng_multipolygon(&multipolygon, zoom) is called: a task for
\* each sub-polygon
StartMultipolygon(multipolygon, zoom) ==
  /\ call = NoCall
  /\ StartJob("multipolygon", zoom, multipolygon)
  /\ call' = [fn |-> "from_bng_multipolygon", multipolygon |-> multipolygon,
              zoom |-> zoom]

\* grid.to_polygons() is called on the grid of an extent
StartToPolygons(e, zoom) ==
  /\ call = NoCall
  /\ \E grid \in {from_bng_extent(e.min, e.max, zoom)} :
       /\ StartJob("to_polygons", zoom, <<grid.cells>>)
       /\ call' = [fn |-> "to_polygons", grid |-> grid]

\* A task is done: its result goes to its slot of the top job.
task_update(p, t, task) ==
  [p EXCEPT !.tasks[t] = task,
            !.top = IF task.stage = "done" THEN RunItem(@, t, Some(task.out))
                    ELSE @]

\* A worker starts task t and runs it up to its first parallel iterator.
Begin(t) ==
  /\ par.phase = "running"
  /\ t \in 1..Len(par.tasks) /\ par.tasks[t].stage = "idle"
  /\ par' = task_update(par, t, begin_task(par.kind, par.top.items[t], par.zoom))
  /\ UNCHANGED <<call, ret>>

\* A worker runs the closure of task t's iterator on item i.
Work(t, i) ==
  /\ par.phase = "running"
  /\ t \in 1..Len(par.tasks)
  /\ par.tasks[t].stage \in {"generate", "filter", "emit", "map"}
  /\ i \in 1..Len(par.tasks[t].job.items) /\ par.tasks[t].job.slots[i] = Pending
  /\ par' = [par EXCEPT !.tasks[t].job =
               RunItem(@, i, stage_closure(par.tasks[t].stage, @.items[i],
                                           par.top.items[t], par.zoom))]
  /\ UNCHANGED <<call, ret>>

\* The collect() of task t's iterator returns, every slot being filled, and
\* the task goes on to its next iterator, or is done.
Collect(t) ==
  /\ par.phase = "running"
  /\ t \in 1..Len(par.tasks)
  /\ par.tasks[t].stage \in {"generate", "filter", "emit", "map"}
  /\ JobDone(par.tasks[t].job)
  /\ par' = task_update(par, t,
                        enter_stage(par.tasks[t],
                                    next_stage(par.kind, par.tasks[t].stage),
                                    collect(par.tasks[t].job)))
  /\ UNCHANGED <<call, ret>>

\* The call returns; for a multipolygon after the collect() of the top job
\* and the sequential filter on seen_ids.
Gather ==
  /\ par.phase = "running"
  /\ JobDone(par.top)
  /\ \E outs \in {collect(par.top)} :
       ret' = IF par.kind = "multipolygon"
                THEN HexGrid(dedup_by_id(Concat(outs)), par.zoom)
              ELSE IF par.kind = "to_polygons" THEN outs[1]
              ELSE HexGrid(outs[1], par.zoom)
  /\ par' = [par EXCEPT !.phase = "done"]
  /\ UNCHANGED call

\* Polygons of few candidates, in sixteenths of the cell width: a triangle
\* in row 0, a triangle over rows 0 and 1, and the polygon without
\* coordinates.
ParPolygonShapes ==
  << << <<2, 1>>, <<14, 1>>, <<8, 6>> >>,
     << <<26, 2>>, <<38, 2>>, <<32, 12>> >>,
     << >> >>

ParPolygon(k, z) ==
  [i \in 1..Len(ParPolygonShapes[k]) |->
     WidthsPoint(ParPolygonShapes[k][i][1], ParPolygonShapes[k][i][2], 16, z)] \o << >>

ParMultiPolygonShapes == { << >>, <<1, 1>>, <<3, 1>>, <<2>>, <<1, 3, 1>> }

NextPar ==
  \/ \E zoom \in GridZooms : \E e \in ExtentInputs(zoom) : StartExtent(e, zoom)
  \/ \E zoom \in GridZooms, k \in 1..Len(ParPolygonShapes) :
       StartPolygon(ParPolygon(k, zoom), zoom)
  \/ \E zoom \in GridZooms, ks \in ParMultiPolygonShapes :
       \E multipolygon \in {[i \in 1..Len(ks) |-> ParPolygon(ks[i], zoom)] \o << >>} :
         StartMultipolygon(multipolygon, zoom)
  \/ \E zoom \in GridZooms : \E e \in ExtentInputs(zoom) : StartToPolygons(e, zoom)
  \/ \E t \in 1..MaxParItems : Begin(t)
  \/ \E t \in 1..MaxParItems, i \in 1..MaxParItems : Work(t, i)
  \/ \E t \in 1..MaxParItems : Collect(t)
  \/ Gather

SpecPar == Init /\ [][NextPar]_vars

(***************************************************************************)
(* Line coverage operations                                                *)
(***************************************************************************)
\* Vertices of a line.
MaxLineVertices == 3

LineZooms == {15, 16}

\* Vertices: 1, a lattice point one width west of the origin; 2, the point
\* one width east of the origin; 3, the last f64 before half a width east of
\* it; 4, the point one width west of it.
LineVertices(zoom) ==
  << LatticePoint(-4, 2, zoom), LatticePoint(4, 0, zoom),
     [x |-> F64Below(F64Mul(F64Half, LayoutWidth(zoom))), y |-> F64Zero],
     LatticePoint(-4, 0, zoom) >>

RECURSIVE SeqsUpTo(_, _)
SeqsUpTo(S, n) ==
  IF n = 0 THEN {<< >>}
  ELSE LET shorter == SeqsUpTo(S, n - 1)
       IN  shorter \cup {Append(l, v) : l \in shorter, v \in S}

\* Lines, by the numbers of their vertices.
LineShapes ==
  { << >>, <<2>>, <<1, 1>>, <<2, 3>>, <<3, 2>>, <<2, 1>>, <<2, 2, 3>>,
    <<2, 4, 2>>, <<2, 3, 3, 2>> }

LineInputs(zoom) ==
  { [i \in 1..Len(shape) |-> LineVertices(zoom)[shape[i]]] \o << >>
    : shape \in {sh \in LineShapes : Len(sh) <= MaxLineVertices} }

\* The (row, col) pairs in ascending order.
RECURSIVE sorted_pairs(_)
sorted_pairs(items) ==
  IF items = {} THEN << >>
  ELSE LET first == CHOOSE a \in items :
                      \A b \in items :
                        a[1] < b[1] \/ (a[1] = b[1] /\ a[2] <= b[2])
       IN  <<first>> \o sorted_pairs(items \ {first})

\* The k-th arrangement of a sequence: the digits of k, least significant
\* first and in the bases Len(s), Len(s) - 1, .., 1, give the position of each
\* next element among those left.  k in 0..(Len(s)! - 1) gives every order.
RECURSIVE arrangement(_, _)
arrangement(s, k) ==
  IF s = << >> THEN << >>
  ELSE LET n == Len(s)
           i == (k % n) + 1
       IN  <<s[i]>> \o arrangement(SubSeq(s, 1, i - 1) \o SubSeq(s, i + 1, n),
                                    k \div n)

RECURSIVE Factorial(_)
Factorial(n) == IF n <= 1 THEN 1 ELSE n * Factorial(n - 1)

\* Keys for a set of these values: for every order of the values the keys
\* under which the hashes of the values ascend in that order, and the keys
\* under which all values have the same hash.  No two of the first kind
\* give iter() the same order.
HashKeysOver(values) ==
  { [v \in values |-> (CHOOSE i \in 1..Len(order) : order[i] = v) - 1]
    : order \in { arrangement(sorted_pairs(values), k)
                  : k \in 0..(Factorial(Cardinality(values)) - 1) } }
    \cup { [v \in values |-> 0] }

\* The (row, col) pairs the samples of these lines fall in.
RowColsOfLines(lines, zoom) ==
  UNION { { rcs[k] : k \in 1..Len(rcs) }
          : rcs \in { sample_row_cols(line_samples(line, zoom), zoom)
                      : line \in lines } }

\* The keys a HashSet of a call can have drawn, as far as the values of
\* these lines tell them apart.
HashKeys == HashKeysOver(RowColsOfLines(LineInputs(MAX_ZOOM_LEVEL), MAX_ZOOM_LEVEL))

\* HexCell::from_line_string_bng(&line, zoom), the first call with this
\* line; the HashSet it creates has one of the given keys.  seen keeps
\* seen.iter() of the set the call drops.
FromLineStringBng(line, zoom, key_choices) ==
  /\ call = NoCall
  /\ \E setup \in {from_line_string_setup(line, zoom)} :
       \E keys \in key_choices :
         \E run \in {from_line_string_loops(setup, zoom, keys)} :
           /\ call' = [fn |-> "from_line_string_bng", line |-> line, zoom |-> zoom,
                       seen |-> run.seen, first |-> NoRet, first_seen |-> << >>]
           /\ ret' = run.ret
  /\ UNCHANGED par

\* ... and a second call with the same line and zoom; the HashSet it creates
\* has keys of its own.  seen and first_seen keep seen.iter() of the two sets
\* for the comparison.
FromLineStringBngAgain(key_choices) ==
  /\ call.fn = "from_line_string_bng" /\ call.first = NoRet
  /\ \E setup \in {from_line_string_setup(call.line, call.zoom)} :
       \E keys \in key_choices :
         \E run \in {from_line_string_loops(setup, call.zoom, keys)} :
           /\ call' = [call EXCEPT !.seen = run.seen,
                                   !.first = ret, !.first_seen = call.seen]
           /\ ret' = run.ret
  /\ UNCHANGED par

NextLine ==
  \/ \E zoom \in LineZooms : \E line \in LineInputs(zoom) :
       FromLineStringBng(line, zoom, HashKeys)
  \/ FromLineStringBngAgain(HashKeys)

SpecLine == Init /\ [][NextLine]_vars

(***************************************************************************)
(* HexCell::from_geometry, for Crs::Bng.  The Crs::Wgs84 arms differ by a  *)
(* projection made by the PROJ library, which is not part of the source    *)
(* and is not modelled.                                                    *)
(***************************************************************************)
\* Members of a GeometryCollection.
MaxMembers == 2

GeometryZooms == {15, 16}

\* The points the geometries are made of.
GeometryPoints(zoom) ==
  << LatticePoint(1, 7, zoom), LatticePoint(5, 4, zoom), LatticePoint(-2, 6, zoom) >>

\* Geometries that are not collections, made of the points a, b and c.
SimpleGeometriesOf(a, b, c, zoom) ==
  {Geometry("Point", p) : p \in {a, b, c}}
  \cup {Geometry("MultiPoint", ps) : ps \in {<< >>, <<a, b>>, <<a, a, b, a>>, <<c, c>>}}
  \cup {Geometry("LineString", l) : l \in {<< >>, <<a>>, <<a, b>>, <<c, b, c>>}}
  \cup {Geometry("MultiLineString", ls) :
          ls \in {<< >>, << <<a, b>>, <<b, c>> >>, << <<c, a>>, << >>, <<c, a>> >>}}
  \cup {Geometry("Polygon", PolygonInput(k, zoom)) : k \in PolygonIds}
  \cup {Geometry("Polygon", ring) : ring \in {<<a>>, <<a, b>>, <<c, b, a, c>>}}
  \cup {Geometry("MultiPolygon", MultiPolygonInput(ks, zoom)) :
          ks \in {<< >>, <<1, 5, 2>>, <<5, 5>>, <<3, 3>>}}
  \cup {Geometry(kind, <<a, b, c>>) : kind \in {"Line", "Rect", "Triangle"}}

SimpleGeometries(zoom) ==
  One({
                                        SimpleGeometriesOf(p[1], p[2], p[3], zoom)
    : p \in {GeometryPoints(zoom)} })

\* Members of the collections explored.
MemberGeometriesOf(a, b, zoom) ==
  { Geometry("Point", a),
    Geometry("MultiPoint", <<a, a, b, a>>),
    Geometry("LineString", <<a, b>>),
    Geometry("Polygon", PolygonInput(5, zoom)),
    Geometry("MultiPolygon", MultiPolygonInput(<<1, 5, 2>>, zoom)),
    Geometry("GeometryCollection", <<Geometry("Point", b), Geometry("Point", a)>>),
    Geometry("Rect", <<a, b>>) }

MemberGeometries(zoom) ==
  One({
                                        MemberGeometriesOf(p[1], p[2], zoom)
    : p \in {GeometryPoints(zoom)} })

GeometryInputs(zoom) ==
  SimpleGeometries(zoom)
  \cup {Geometry("GeometryCollection", members) :
          members \in SeqsUpTo(MemberGeometries(zoom), MaxMembers)}

\* HexCell::from_geometry(geom, zoom, Crs::Bng)
FromGeometry(geom, zoom) ==
  /\ call = NoCall
  /\ call' = [fn |-> "from_geometry", geom |-> geom, zoom |-> zoom]
  /\ ret' = from_geometry(geom, zoom)
  /\ UNCHANGED par

NextGeometry ==
  \E zoom \in GeometryZooms : \E geom \in GeometryInputs(zoom) :
    FromGeometry(geom, zoom)

SpecGeometry == Init /\ [][NextGeometry]_vars

(***************************************************************************)
(* HexGridBuilder: src/src/api/hex_grid.rs                                 *)
(***************************************************************************)
\* The builder's fields; extent stands for min_x, min_y, max_x, max_y, which
\* are only ever set together.
HexGridBuilder(zoom_level, extent, polygon, multipolygon) ==
  [zoom_level |-> zoom_level, extent |-> extent, polygon |-> polygon,
   multipolygon |-> multipolygon]

\* HexGridBuilder::new()
builder_new == HexGridBuilder(NoRet, NoRet, NoRet, NoRet)

\* Mutation of build: a polygon is preferred to a multipolygon.
build_polygon_first(b) ==
  IF b.zoom_level.tag = "None" THEN Panic("zoom_level must be set")
  ELSE IF b.polygon.tag = "Some"
    THEN Returned(from_bng_polygon(b.polygon.val, b.zoom_level.val))
  ELSE IF b.multipolygon.tag = "Some"
    THEN Returned(from_bng_multipolygon(b.multipolygon.val, b.zoom_level.val))
  ELSE IF b.extent.tag = "None"
    THEN Panic("extent, polygon, or multipolygon must be set")
  ELSE Returned(from_bng_extent(b.extent.val.min, b.extent.val.max,
                                b.zoom_level.val))

\* Mutation of build: the extent is unwrapped before the polygons are looked
\* at.
build_extent_first(b) ==
  IF b.zoom_level.tag = "None" THEN Panic("zoom_level must be set")
  ELSE IF b.extent.tag = "None"
    THEN Panic("extent, polygon, or multipolygon must be set")
  ELSE IF b.multipolygon.tag = "Some"
    THEN Returned(from_bng_multipolygon(b.multipolygon.val, b.zoom_level.val))
  ELSE IF b.polygon.tag = "Some"
    THEN Returned(from_bng_polygon(b.polygon.val, b.zoom_level.val))
  ELSE Returned(from_bng_extent(b.extent.val.min, b.extent.val.max,
                                b.zoom_level.val))

\* HexGridBuilder::build(self)
build(b) ==
  IF b.zoom_level.tag = "None" THEN Panic("zoom_level must be set")
  ELSE IF b.multipolygon.tag = "Some"
    THEN Returned(from_bng_multipolygon(b.multipolygon.val, b.zoom_level.val))
  ELSE IF b.polygon.tag = "Some"
    THEN Returned(from_bng_polygon(b.polygon.val, b.zoom_level.val))
  ELSE IF b.extent.tag = "None"
    THEN Panic("extent, polygon, or multipolygon must be set")
  ELSE Returned(from_bng_extent(b.extent.val.min, b.extent.val.max,
                                b.zoom_level.val))

\* Rect::new(c1, c2): the rectangle of two corners, which are sorted into its
\* min() and max().
RectNew(c1, c2) ==
  [min |-> [x |-> F64Min(c1.x, c2.x), y |-> F64Min(c1.y, c2.y)],
   max |-> [x |-> F64Max(c1.x, c2.x), y |-> F64Max(c1.y, c2.y)]]

\* Err(N3gbError::ProjectionError(..)) of wgs84_to_bng, wgs84_polygon_to_bng
\* and wgs84_multipolygon_to_bng.  The projection is computed by the PROJ
\* library, which is not part of the source: a call of one of them gives this
\* error or Ok of a projected value, and the setters below are given that
\* result.
ProjectionError == Err(<<"ProjectionError">>)

\* Setter calls made on one builder.
MaxBuilderCalls == 3

\* Arguments of the setters, in sixteenths of the cell width at zoom 15.
BuilderZooms == {15, 16}

BuilderPoint(kx, ky) == WidthsPoint(kx, ky, 16, MAX_ZOOM_LEVEL)

BuilderExtents == { [min |-> BuilderPoint(0, 0), max |-> BuilderPoint(12, 12)] }

\* The rectangle of test_hex_grid_builder_with_rect has its corners in
\* order; this one is given its max corner first.
BuilderRects == { RectNew(BuilderPoint(8, 16), BuilderPoint(-12, 0)) }

\* The triangle that lies kx sixteenths east of the origin, over the cells of
\* two columns of row 0.
BuilderTriangle(kx) ==
  <<BuilderPoint(kx + 2, 1), BuilderPoint(kx + 14, 1), BuilderPoint(kx + 8, 6)>>

BuilderPolygons == { BuilderTriangle(0) }

BuilderMultipolygons == { <<BuilderTriangle(16), BuilderTriangle(0)>> }

\* Results of the projection of the arguments of the wgs84 setters.
ProjectedPoints(kx, ky) == {ProjectionError, Ok(BuilderPoint(kx, ky))}

ProjectedPolygons == { ProjectionError, Ok(BuilderTriangle(32)) }

ProjectedMultipolygons == { ProjectionError, Ok(<<BuilderTriangle(48)>>) }

\* HexGrid::builder()
BuilderNew ==
  /\ call = NoCall
  /\ call' = [fn |-> "builder", b |-> builder_new, n |-> 0, hist |-> << >>]
  /\ UNCHANGED <<ret, par>>

\* A setter has replaced the builder by b; hist records the setter calls made
\* so far, each with the value it was given for its field.
BuilderSet(b, setter, arg) ==
  /\ call.fn = "builder" /\ call.n < MaxBuilderCalls
  /\ call' = [fn |-> "builder", b |-> b, n |-> call.n + 1,
              hist |-> Append(call.hist, [setter |-> setter, arg |-> arg])]
  /\ UNCHANGED <<ret, par>>

\* The `?` of a wgs84 setter has returned the error e; the builder, moved
\* into the setter, is dropped.
BuilderFail(setter, e) ==
  /\ call.fn = "builder" /\ call.n < MaxBuilderCalls
  /\ call' = [fn |-> "builder_dropped", b |-> call.b, n |-> call.n + 1,
              hist |-> Append(call.hist, [setter |-> setter, arg |-> e])]
  /\ ret' = e
  /\ UNCHANGED par

\* .zoom_level(z)
BuilderZoomLevel(z) ==
  /\ call.fn = "builder"
  /\ BuilderSet([call.b EXCEPT !.zoom_level = Some(z)], "zoom_level", z)

\* .rect(&rect)
BuilderRect(rect) ==
  /\ call.fn = "builder"
  /\ BuilderSet([call.b EXCEPT !.extent = Some([min |-> rect.min, max |-> rect.max])],
                "rect", rect)

\* .bng_extent(&min, &max)
BuilderBngExtent(e) ==
  /\ call.fn = "builder"
  /\ BuilderSet([call.b EXCEPT !.extent = Some(e)], "bng_extent", e)

\* .wgs84_extent(&min, &max)?, min_bng and max_bng being the results of
\* wgs84_to_bng(min) and wgs84_to_bng(max)
BuilderWgs84Extent(min_bng, max_bng) ==
  /\ call.fn = "builder"
  /\ IF min_bng.tag = "Err" THEN BuilderFail("wgs84_extent", min_bng)
     ELSE IF max_bng.tag = "Err" THEN BuilderFail("wgs84_extent", max_bng)
     ELSE \E e \in {[min |-> min_bng.val, max |-> max_bng.val]} :
            BuilderSet([call.b EXCEPT !.extent = Some(e)], "wgs84_extent", e)

\* .bng_polygon(polygon)
BuilderBngPolygon(polygon) ==
  /\ call.fn = "builder"
  /\ BuilderSet([call.b EXCEPT !.polygon = Some(polygon)], "bng_polygon", polygon)

\* .wgs84_polygon(polygon)?, bng_polygon being the result of
\* wgs84_polygon_to_bng(&polygon)
BuilderWgs84Polygon(bng_polygon) ==
  /\ call.fn = "builder"
  /\ IF bng_polygon.tag = "Err" THEN BuilderFail("wgs84_polygon", bng_polygon)
     ELSE BuilderSet([call.b EXCEPT !.polygon = Some(bng_polygon.val)],
                     "wgs84_polygon", bng_polygon.val)

\* .bng_multipolygon(multipolygon)
BuilderBngMultipolygon(multipolygon) ==
  /\ call.fn = "builder"
  /\ BuilderSet([call.b EXCEPT !.multipolygon = Some(multipolygon)],
                "bng_multipolygon", multipolygon)

\* .wgs84_multipolygon(multipolygon)?, bng_multipolygon being the result of
\* wgs84_multipolygon_to_bng(&multipolygon)
BuilderWgs84Multipolygon(bng_multipolygon) ==
  /\ call.fn = "builder"
  /\ IF bng_multipolygon.tag = "Err"
       THEN BuilderFail("wgs84_multipolygon", bng_multipolygon)
     ELSE BuilderSet([call.b EXCEPT !.multipolygon = Some(bng_multipolygon.val)],
                     "wgs84_multipolygon", bng_multipolygon.val)

\* .build()
Build ==
  /\ call.fn = "builder"
  /\ call' = [fn |-> "build", b |-> call.b, n |-> call.n, hist |-> call.hist]
  /\ ret' = build(call.b)
  /\ UNCHANGED par

NextBuilder ==
  \/ BuilderNew
  \/ \E z \in BuilderZooms : BuilderZoomLevel(z)
  \/ \E rect \in BuilderRects : BuilderRect(rect)
  \/ \E e \in BuilderExtents : BuilderBngExtent(e)
  \/ \E min_bng \in ProjectedPoints(-4, 16), max_bng \in ProjectedPoints(4, 24) :
       BuilderWgs84Extent(min_bng, max_bng)
  \/ \E polygon \in BuilderPolygons : BuilderBngPolygon(polygon)
  \/ \E bng_polygon \in ProjectedPolygons : BuilderWgs84Polygon(bng_polygon)
  \/ \E multipolygon \in BuilderMultipolygons : BuilderBngMultipolygon(multipolygon)
  \/ \E bng_multipolygon \in ProjectedMultipolygons :
       BuilderWgs84Multipolygon(bng_multipolygon)
  \/ Build

SpecBuilder == Init /\ [][NextBuilder]_vars
(***************************************************************************)
(* Properties of the cell index and the cell constructors (SpecIndex)      *)
(***************************************************************************)
\* A constructor has returned a cell.
HoldsCell == call.fn \in {"from_bng", "from_hex_id"} /\ ret.tag = "Ok"

\* The coordinate lies on the grid's side of the origin on both axes.
OriginSide(p) == F64Le(GRID_EXTENTS[1], p.x) /\ F64Le(GRID_EXTENTS[2], p.y)

\* Decoding the cell's id gives a centre that re-indexes, at the decoded
\* zoom, to the cell's own (row, col) and zoom_level.
CellInvariant(cell) ==
  \A d \in {decode_hex_identifier(cell.id)} :
    /\ d.tag = "Ok"
    /\ d.val[4] = cell.zoom_level
    /\ d.val[4] <= MAX_ZOOM_LEVEL
    /\ point_to_hex(d.val[2], d.val[3], d.val[4]) = Ok(<<cell.row, cell.col>>)

\* C1: every cell a constructor produces satisfies the cell invariant: its
\* id decodes to a centre that point_to_hex maps back to the cell's own
\* (row, col) at the cell's zoom_level.  Stated for the cells whose centre
\* lies on the grid's side of the origin, where the id holds the centre.
C1_CellInvariant ==
  (HoldsCell /\ OriginSide(ret.val.center)) => CellInvariant(ret.val)

\* The squared distance of two f64 points, exactly.
ExactDist2(p, q) ==
  One({
    ExactAdd(ExactMul(dx, dx), ExactMul(dy, dy))
    : dx \in {ExactSub(q.x, p.x)}, dy \in {ExactSub(q.y, p.y)} })

\* The points p and q are no further apart than d >= 0.
WithinDistance(p, q, d) == ExactLeq(ExactDist2(p, q), ExactMul(d, d))

\* A point has been indexed and the centre of its cell computed; the point
\* lies on the grid's side of the origin.
HoldsSnap == call.fn = "from_bng" /\ ret.tag = "Ok" /\ OriginSide(call.p)

\* C4: the point given to point_to_hex lies inside or on the hexagon of
\* circumradius CELL_RADIUS[zoom] around the centre of the cell returned,
\* and so no further than CELL_RADIUS[zoom] from that centre.
C4_PointInItsCell ==
  HoldsSnap =>
    /\ PointInRing(call.p, to_polygon(ret.val))
    /\ WithinDistance(call.p, ret.val.center, CELL_RADIUS[call.zoom + 1])

\* C5: the centre a point snaps to lies within one cell width of the point,
\* and snapping that centre again gives the same cell.
C5_SnapBoundedStable ==
  HoldsSnap =>
    /\ WithinDistance(call.p, ret.val.center, CELL_WIDTHS[call.zoom + 1])
    /\ point_to_hex(ret.val.center.x, ret.val.center.y, call.zoom)
         = Ok(<<ret.val.row, ret.val.col>>)

(***************************************************************************)
(* Properties of the identifier codec (SpecCodec)                          *)
(***************************************************************************)
\* The f64 a and b differ by 1 / SCALE_FACTOR at most.
WithinMilli(a, b) ==
  ExactLeq(ExactMul(F64FromInt(SCALE_FACTOR), F64Abs(ExactSub(a, b))),
           F64FromInt(1))

\* The coordinates lie in the national extent GRID_EXTENTS.
InNationalExtent(easting, northing) ==
  /\ F64Le(GRID_EXTENTS[1], easting) /\ F64Le(easting, GRID_EXTENTS[3])
  /\ F64Le(GRID_EXTENTS[2], northing) /\ F64Le(northing, GRID_EXTENTS[4])

\* C2: decoding the identifier generated for coordinates of the national
\* extent succeeds and returns version 1, the zoom given, and easting and
\* northing within 0.001 m of the coordinates given.
C2_RoundTrip ==
  ( /\ call.fn = "decode_hex_identifier" /\ call.how = "intact"
    /\ InNationalExtent(call.of.in.easting, call.of.in.northing) ) =>
    /\ ret.tag = "Ok"
    /\ ret.val[1] = 1
    /\ ret.val[4] = call.of.zoom
    /\ WithinMilli(ret.val[2], call.of.in.easting)
    /\ WithinMilli(ret.val[3], call.of.in.northing)

\* The pinned vector x = 383640.0, y = 398260.0, zoom = 12 has been decoded.
C2_Witness ==
  /\ call.fn = "decode_hex_identifier" /\ call.how = "intact"
  /\ call.of.in = [easting |-> F64FromInt(383640), northing |-> F64FromInt(398260)]
  /\ call.of.zoom = 12
  /\ ret = Ok(<<1, F64FromInt(383640), F64FromInt(398260), 12>>)

\* C3: an identifier with one bit of its checksum byte flipped fails with
\* InvalidChecksum; a record with version byte v # 1 and a matching checksum
\* fails with UnsupportedVersion(v).
C3_CorruptionVersusSkew ==
  call.fn = "decode_hex_identifier" =>
    /\ call.how = "flipped" => ret = Err(<<"InvalidChecksum">>)
    /\ call.how = "version" => ret = Err(<<"UnsupportedVersion", call.arg>>)

\* The top bit of the checksum byte of an identifier at zoom 12 was flipped
\* and the decoding has failed.
C3_Witness ==
  /\ call.fn = "decode_hex_identifier" /\ call.how = "flipped"
  /\ call.arg = 7 /\ call.of.zoom = 12
  /\ ret.tag = "Err"

(***************************************************************************)
(* Properties of the grids (SpecGrid)                                      *)
(***************************************************************************)
HoldsGrid ==
  call.fn \in {"from_bng_extent", "from_bng_polygon", "from_bng_multipolygon"}

\* C6: every cell of a grid built from an extent, a polygon or a
\* multipolygon has the grid's zoom_level, and no two cells have the same id.
C6_GridInvariant ==
  HoldsGrid =>
    /\ ret.zoom_level = call.zoom
    /\ \A i \in 1..Len(ret.cells) : ret.cells[i].zoom_level = ret.zoom_level
    /\ \A i, j \in 1..Len(ret.cells) :
         ret.cells[i].id = ret.cells[j].id => i = j

\* A multipolygon grid of several cells whose sub-polygons' grids share
\* cells.
C6_Witness ==
  /\ call.fn = "from_bng_multipolygon"
  /\ Len(ret.cells) >= 2
  /\ SumSeq([i \in 1..Len(call.multipolygon) |->
               Len(from_bng_polygon(call.multipolygon[i], call.zoom).cells)])
       > Len(ret.cells)

\* The rectangle lies inside the national extent.
InsideNationalExtent(min, max) ==
  /\ OriginSide(min)
  /\ F64Le(max.x, GRID_EXTENTS[3]) /\ F64Le(max.y, GRID_EXTENTS[4])

\* C7: in a grid built from a rectangle inside the national extent at a
\* zoom <= 15, get_cell_at returns, for every point of the rectangle, a
\* cell, and that cell's (row, col) is point_to_hex of the point.
C7_LookupCoversExtent ==
  ( /\ call.fn = "get_cell_at"
    /\ call.zoom <= MAX_ZOOM_LEVEL
    /\ InsideNationalExtent(call.min, call.max) ) =>
    /\ ret.tag = "Some"
    /\ Ok(<<ret.val.row, ret.val.col>>)
         = point_to_hex(call.point.x, call.point.y, call.zoom)

\* The (row, col) pairs of the rectangle spanned by the four indexed corners
\* of an extent.
CornerRectangle(min, max, z) ==
  LET corners == {point_to_hex(x, y, z).val : x \in {min.x, max.x},
                                              y \in {min.y, max.y}}
      rows == {rc[1] : rc \in corners}
      cols == {rc[2] : rc \in corners}
  IN  ((CHOOSE a \in rows : \A b \in rows : a <= b) ..
       (CHOOSE a \in rows : \A b \in rows : a >= b))
      \X
      ((CHOOSE a \in cols : \A b \in cols : a <= b) ..
       (CHOOSE a \in cols : \A b \in cols : a >= b))

\* C8: the cells of an extent grid are exactly the candidates of the corner
\* rectangle whose centre has x >= 0 and y >= 0, each once; so every cell
\* has easting >= 0 and northing >= 0 and none is dropped for lying beyond
\* the maximum of the national extent.
C8_OriginSideClipping ==
  (call.fn = "from_bng_extent" /\ call.zoom <= MAX_ZOOM_LEVEL) =>
    \A kept \in {{rc \in CornerRectangle(call.min, call.max, call.zoom) :
                    OriginSide(hex_to_point(rc[1], rc[2], call.zoom).val)}} :
      /\ {<<ret.cells[i].row, ret.cells[i].col>> : i \in 1..Len(ret.cells)} = kept
      /\ Len(ret.cells) = Cardinality(kept)
      /\ \A i \in 1..Len(ret.cells) :
           /\ ret.cells[i].center
                = hex_to_point(ret.cells[i].row, ret.cells[i].col, call.zoom).val
           /\ OriginSide(ret.cells[i].center)

\* An extent grid at zoom 2 that lost a candidate below the origin and kept
\* a cell whose centre lies beyond (750000, 1350000).
C8_Witness ==
  /\ call.fn = "from_bng_extent" /\ call.zoom = 2
  /\ Len(ret.cells) < Cardinality(CornerRectangle(call.min, call.max, call.zoom))
  /\ \E i \in 1..Len(ret.cells) :
       \/ F64Lt(GRID_EXTENTS[3], ret.cells[i].center.x)
       \/ F64Lt(GRID_EXTENTS[4], ret.cells[i].center.y)

(***************************************************************************)
(* Properties of the parallel generation (SpecPar)                         *)
(***************************************************************************)
\* Ascending row, then ascending col within a row.
RowMajor(cells) ==
  \A i \in 1..(Len(cells) - 1) :
    \/ cells[i].row < cells[i + 1].row
    \/ cells[i].row = cells[i + 1].row /\ cells[i].col < cells[i + 1].col

\* C9: whatever the order in which the workers computed the candidates, the
\* cells returned for an extent are in row-major order and are the cells of
\* the sequential computation.
C9_RowMajorAnySchedule ==
  (par.phase = "done" /\ par.kind = "extent") =>
    /\ RowMajor(ret.cells)
    /\ ret = from_bng_extent(call.min, call.max, call.zoom)

\* Four cells in two rows and two columns, computed last candidate first.
C9_Witness ==
  /\ par.phase = "done" /\ par.kind = "extent"
  /\ par.tasks[1].job.log = <<4, 3, 2, 1>>
  /\ Len(ret.cells) = 4
  /\ ret.cells[1].col < ret.cells[2].col
  /\ ret.cells[1].row < ret.cells[4].row

\* The cells of a sequence without those whose id appeared earlier in it.
RECURSIVE RemoveSeenEarlier(_)
RemoveSeenEarlier(cells) ==
  IF cells = <<>> THEN <<>>
  ELSE LET n == Len(cells)
           init == RemoveSeenEarlier(SubSeq(cells, 1, n - 1))
       IN  IF \E j \in 1..(n - 1) : cells[j].id = cells[n].id
             THEN init
             ELSE Append(init, cells[n])

\* from_bng_polygon of each sub-polygon, concatenated in input order.
RECURSIVE SequentialPolygons(_, _)
SequentialPolygons(multipolygon, zoom) ==
  IF multipolygon = <<>> THEN <<>>
  ELSE from_bng_polygon(Head(multipolygon), zoom).cells
         \o SequentialPolygons(Tail(multipolygon), zoom)

\* C10: whatever the order in which the per-polygon tasks completed, the
\* multipolygon's grid is the sequential one (the polygons' cells
\* concatenated in input order, then those with an id seen earlier removed),
\* and a result exists only once every task's cells have been gathered.
C10_ScheduleIndependent ==
  par.kind = "multipolygon" =>
    /\ par.phase = "running" => ret = NoRet
    /\ par.phase = "done" =>
         /\ \A t \in 1..Len(par.tasks) :
              par.tasks[t].stage = "done" /\ par.top.slots[t] # Pending
         /\ ret = HexGrid(RemoveSeenEarlier(
                            SequentialPolygons(call.multipolygon, call.zoom)),
                          call.zoom)

\* Two sub-polygons sharing cells, the second one finished first.
C10_Witness ==
  /\ par.phase = "done" /\ par.kind = "multipolygon"
  /\ par.top.log = <<2, 1>>
  /\ Len(ret.cells) >= 2
  /\ Len(ret.cells) < Len(SequentialPolygons(call.multipolygon, call.zoom))

(***************************************************************************)
(* Properties of the polygon and multipolygon grids (SpecGrid)             *)
(***************************************************************************)
\* C11: the grid of a multipolygon made of the same polygon twice has the
\* cells of that polygon's grid: the same ids, as many, in the same order.
C11_RepeatedPolygon ==
  ( /\ call.fn = "from_bng_multipolygon"
    /\ Len(call.multipolygon) = 2
    /\ call.multipolygon[1] = call.multipolygon[2] ) =>
    \A single \in {from_bng_polygon(call.multipolygon[1], call.zoom).cells} :
        /\ Len(ret.cells) = Len(single)
        /\ \A i \in 1..Len(single) : ret.cells[i].id = single[i].id

\* A polygon of several cells, given twice.
C11_Witness ==
  /\ call.fn = "from_bng_multipolygon"
  /\ Len(call.multipolygon) = 2
  /\ call.multipolygon[1] = call.multipolygon[2]
  /\ Len(ret.cells) >= 3

\* a is b with some elements left out.
RECURSIVE IsSubsequence(_, _)
IsSubsequence(a, b) ==
  IF a = <<>> THEN TRUE
  ELSE IF b = <<>> THEN FALSE
  ELSE IF Head(a) = Head(b) THEN IsSubsequence(Tail(a), Tail(b))
  ELSE IsSubsequence(a, Tail(b))

\* The extent grid over the bounding rectangle of a polygon that has
\* coordinates.
BoundingExtentCells(polygon, zoom) ==
  One({
    from_bng_extent(bbox.min, bbox.max, zoom).cells
    : bbox \in {bounding_rect(polygon)} })

\* C12: the grid of a polygon is a subsequence of the extent grid over the
\* polygon's bounding rectangle and holds exactly the cells of it whose
\* hexagon intersects the polygon; it has strictly fewer cells for the test
\* triangle; a polygon without coordinates gives the empty grid.
C12_PolygonFiltersExtent ==
  call.fn = "from_bng_polygon" =>
    IF call.polygon = <<>> THEN ret.cells = <<>>
    ELSE \A ext \in {BoundingExtentCells(call.polygon, call.zoom)} :
             /\ IsSubsequence(ret.cells, ext)
             /\ Len(ret.cells) <= Len(ext)
             /\ \A i \in 1..Len(ext) :
                  (\E j \in 1..Len(ret.cells) : ret.cells[j] = ext[i])
                    <=> intersects(call.polygon, to_polygon(ext[i]))
             /\ call.polygon = TestTriangle =>
                  ret.cells # <<>> /\ Len(ret.cells) < Len(ext)

\* The test triangle's grid: some cells, fewer than its bounding rectangle's.
C12_Witness ==
  /\ call.fn = "from_bng_polygon"
  /\ call.polygon = TestTriangle /\ call.zoom = TestTriangleZoom
  /\ Len(ret.cells) >= 1
  /\ Len(ret.cells) < Len(BoundingExtentCells(call.polygon, call.zoom))

(***************************************************************************)
(* Properties of the decoder's errors (SpecCodec)                          *)
(***************************************************************************)
\* C13: decode_hex_identifier reports one error, the first of: malformed
\* base64 (Base64DecodeError), a length other than 19 bytes
\* (InvalidIdentifierLength), a checksum mismatch (InvalidChecksum), a
\* version other than 1 (UnsupportedVersion(v)); a record with a wrong
\* checksum and a wrong version reports InvalidChecksum.
C13_ErrorOrder ==
  call.fn = "decode_hex_identifier" =>
    /\ call.how \in {"symbol", "symbol_short", "trailing", "cut"}
         => ret = Err(<<"Base64DecodeError">>)
    /\ call.how \in {"short", "empty", "long"}
         => ret = Err(<<"InvalidIdentifierLength">>)
    /\ call.how \in {"flipped", "both"} => ret = Err(<<"InvalidChecksum">>)
    /\ call.how = "version" => ret = Err(<<"UnsupportedVersion", call.arg>>)
    /\ call.how = "intact" => ret.tag = "Ok"

\* A record with version byte 2 and a checksum byte that does not match has
\* been decoded.
C13_Witness ==
  /\ call.fn = "decode_hex_identifier"
  /\ call.how = "both" /\ call.arg = 2
  /\ Base64Decode(call.id).val[1] = 2
  /\ ret.tag = "Err"

(***************************************************************************)
(* Properties of the zoom validation of the index functions (SpecIndex)    *)
(***************************************************************************)
\* C14: point_to_hex and hex_to_point fail, with InvalidZoomLevel(z),
\* exactly when z > 15; for z <= 15 they succeed for every coordinate and
\* every (row, col), also outside the national extent.
C14_ZoomValidation ==
  call.fn \in {"point_to_hex", "hex_to_point"} =>
    /\ call.zoom > 15 => ret = Err(<<"InvalidZoomLevel", call.zoom>>)
    /\ call.zoom <= 15 => ret.tag = "Ok"

\* A point below the origin on both axes, indexed at zoom 15 to a negative
\* row.
C14_Witness ==
  /\ call.fn = "point_to_hex" /\ call.zoom = 15
  /\ F64Lt(call.p.x, GRID_EXTENTS[1]) /\ F64Lt(call.p.y, GRID_EXTENTS[2])
  /\ ret.tag = "Ok"
  /\ ret.val[1] < 0

(***************************************************************************)
(* Properties of bulk generation at an invalid zoom (SpecGrid)             *)
(***************************************************************************)
\* C15: for a zoom above 15, from_bng_extent, from_bng_polygon and
\* from_bng_multipolygon return the empty grid, whatever the extent, the
\* polygon or the multipolygon.
C15_BadZoomEmptyGrid ==
  (HoldsGrid /\ call.zoom > 15) => ret = HexGrid(<<>>, call.zoom)

\* A multipolygon of two sub-polygons that has cells at zoom 15 has been
\* expanded at zoom 16.
C15_Witness ==
  /\ call.fn = "from_bng_multipolygon" /\ call.zoom = 16
  /\ Len(call.multipolygon) = 2
  /\ \A i \in 1..2 : call.multipolygon[i] # <<>>
  /\ Len(from_bng_multipolygon(call.multipolygon, MAX_ZOOM_LEVEL).cells) >= 2
  /\ ret.cells = <<>>

(***************************************************************************)
(* Properties of the builder (SpecBuilder) and of the lookup (SpecGrid)    *)
(***************************************************************************)
\* C16: build aborts exactly when no zoom_level was set or none of extent,
\* polygon and multipolygon was set; otherwise it returns a grid whose
\* zoom_level is the zoom that was set.
C16_BuilderPreconditions ==
  call.fn = "build" =>
    /\ ret.tag = "Panic" <=>
         \/ call.b.zoom_level.tag = "None"
         \/ /\ call.b.extent.tag = "None"
            /\ call.b.polygon.tag = "None"
            /\ call.b.multipolygon.tag = "None"
    /\ ret.tag # "Panic" =>
         ret.tag = "Returned" /\ ret.val.zoom_level = call.b.zoom_level.val

\* A builder with a zoom and a polygon, and no extent, has built a grid of
\* several cells.
C16_Witness ==
  /\ call.fn = "build"
  /\ call.b.zoom_level.tag = "Some" /\ call.b.polygon.tag = "Some"
  /\ call.b.extent.tag = "None" /\ call.b.multipolygon.tag = "None"
  /\ ret.tag = "Returned"
  /\ Len(ret.val.cells) >= 2

\* C17: whenever get_cell_at returns a cell for a point, that cell has the
\* id, row and col of HexCell::from_bng of the same point at the grid's zoom.
C17_LookupAgreesWithFromBng ==
  (call.fn = "get_cell_at" /\ ret.tag = "Some") =>
    \A cell \in {from_bng(call.point.x, call.point.y, call.grid.zoom_level)} :
        /\ cell.tag = "Ok"
        /\ ret.val.id = cell.val.id
        /\ ret.val.row = cell.val.row
        /\ ret.val.col = cell.val.col

\* A lookup in a grid of several rows and columns has returned a cell that
\* is not the grid's first.
C17_Witness ==
  /\ call.fn = "get_cell_at" /\ ret.tag = "Some"
  /\ Len(call.grid.cells) >= 4
  /\ ret.val # call.grid.cells[1]
  /\ ret.val.col # call.grid.cells[1].col
  /\ ret.val.row # call.grid.cells[1].row

(***************************************************************************)
(* Properties of the line coverage (SpecLine)                              *)
(***************************************************************************)
\* The (row, col) of every cell of a list, in order.
RowCols(cells) == [i \in 1..Len(cells) |-> <<cells[i].row, cells[i].col>>]

\* The (row, col) of every sample of a line, walking the segments in order
\* and each segment's samples i = 0..=steps in order.
SampleRowCols(line, zoom) == sample_row_cols(line_samples(line, zoom), zoom)

\* The position of the first sample that falls in the cell rc.
FirstSample(rc, sampled) ==
  CHOOSE k \in 1..Len(sampled) :
    sampled[k] = rc /\ \A j \in 1..(k - 1) : sampled[j] # rc

\* C18: in the list from_line_string_bng returns no two cells share a
\* (row, col), the cells are exactly the cells of the samples, and they are
\* ordered by the position of their first sample.
C18_LineDedupedInSampleOrder ==
  (call.fn = "from_line_string_bng" /\ ret.tag = "Ok") =>
    \A out \in {RowCols(ret.val)}, sampled \in {SampleRowCols(call.line, call.zoom)} :
        /\ {out[i] : i \in 1..Len(out)} = {sampled[k] : k \in 1..Len(sampled)}
        /\ \A i, j \in 1..Len(out) :
             i < j => /\ out[i] # out[j]
                      /\ FirstSample(out[i], sampled) < FirstSample(out[j], sampled)

\* A line has been covered whose samples leave a cell and come back to it
\* later.
C18_Witness ==
  /\ call.fn = "from_line_string_bng" /\ ret.tag = "Ok"
  /\ Len(ret.val) >= 3
  /\ \E sampled \in {SampleRowCols(call.line, call.zoom)} :
         \E a, b, c \in 1..Len(sampled) :
           a < b /\ b < c /\ sampled[a] = sampled[c] /\ sampled[a] # sampled[b]

\* C19: a second call of from_line_string_bng with the same line and zoom
\* returns the same ordered ids and the same ordered (row, col) as the
\* first, whatever the keys of the HashSet each call creates and the order
\* in which that set holds the pairs.
C19_LineDeterministic ==
  ( /\ call.fn = "from_line_string_bng"
    /\ call.first # NoRet
    /\ call.first.tag = "Ok" ) =>
    /\ ret.tag = "Ok"
    /\ [i \in 1..Len(ret.val) |-> ret.val[i].id]
         = [i \in 1..Len(call.first.val) |-> call.first.val[i].id]
    /\ RowCols(ret.val) = RowCols(call.first.val)

\* A line of several cells has been covered twice, and the sets of the two
\* calls held the pairs in different orders, neither of them the order of
\* the cells returned.
C19_Witness ==
  /\ call.fn = "from_line_string_bng"
  /\ call.first # NoRet
  /\ call.first.tag = "Ok" /\ ret.tag = "Ok"
  /\ Len(call.first.val) >= 3
  /\ Len(ret.val) >= 3
  /\ call.seen # call.first_seen
  /\ call.seen # RowCols(ret.val)
  /\ call.first_seen # RowCols(call.first.val)

(***************************************************************************)
(* Properties of from_geometry (SpecGeometry), of the constructors         *)
(* (SpecIndex), of the line coverage (SpecLine) and of the builder         *)
(* (SpecBuilder)                                                           *)
(***************************************************************************)
\* The cell of a point at a valid zoom.
CellOf(p, zoom) == from_bng(p.x, p.y, zoom).val

\* C20: from_geometry, for BNG input, gives for a Point the one cell of
\* from_bng; for a MultiPoint of n points n cells in input order, repeated
\* cells included; for a LineString the line coverage and for a
\* MultiLineString the coverages concatenated in order; for a Polygon the
\* cell of its centroid, and no cell and no error if it has none; for a
\* MultiPolygon the cells of the polygons that have a centroid, in order; for
\* a GeometryCollection the concatenation of its members' results; and
\* GeometryParseError for every other kind.
C20_GeometryDispatch ==
  call.fn = "from_geometry" =>
    \A g \in {call.geom}, z \in {call.zoom} :
        /\ (g.kind = "Point" /\ from_bng(g.of.x, g.of.y, z).tag = "Ok") =>
             ret = Ok(<<CellOf(g.of, z)>>)
        /\ (g.kind = "MultiPoint" /\ ret.tag = "Ok") =>
             ret.val = [i \in 1..Len(g.of) |-> CellOf(g.of[i], z)]
        /\ g.kind = "LineString" =>
             ret = from_line_string_bng(g.of, z, ZeroKeys)
        /\ (g.kind = "MultiLineString" /\ ret.tag = "Ok") =>
             ret.val = Concat([i \in 1..Len(g.of) |->
                                 from_line_string_bng(g.of[i], z, ZeroKeys).val])
        /\ g.kind = "Polygon" =>
             \A centroid \in {polygon_centroid(g.of)} :
                 /\ centroid.tag = "None" => ret = Ok(<< >>)
                 /\ (centroid.tag = "Some" /\ ret.tag = "Ok") =>
                      ret.val = <<CellOf(centroid.val, z)>>
        /\ (g.kind = "MultiPolygon" /\ ret.tag = "Ok") =>
             ret.val = Concat([i \in 1..Len(g.of) |->
                                 LET centroid == polygon_centroid(g.of[i])
                                 IN  IF centroid.tag = "Some"
                                       THEN <<CellOf(centroid.val, z)>>
                                       ELSE << >>])
        /\ (g.kind = "GeometryCollection" /\ ret.tag = "Ok") =>
             ret.val = Concat([i \in 1..Len(g.of) |-> from_geometry(g.of[i], z).val])
        /\ g.kind \notin {"Point", "MultiPoint", "LineString", "MultiLineString",
                          "Polygon", "MultiPolygon", "GeometryCollection"} =>
             ret.tag = "Err" /\ ret.err[1] = "GeometryParseError"

\* A collection holding a MultiPoint and a polygon without centroid has been
\* converted, and two neighbouring cells of the result are the same cell.
C20_Witness ==
  /\ call.fn = "from_geometry"
  /\ call.geom.kind = "GeometryCollection"
  /\ ret.tag = "Ok"
  /\ \E i, j \in 1..Len(call.geom.of) :
       /\ call.geom.of[i].kind = "MultiPoint"
       /\ call.geom.of[j].kind = "Polygon"
       /\ polygon_centroid(call.geom.of[j].of).tag = "None"
  /\ \E k \in 1..(Len(ret.val) - 1) : ret.val[k] = ret.val[k + 1]

\* C21: from_hex_id returns the decoder's error unchanged when decoding
\* fails, InvalidZoomLevel(z) when a well-formed identifier carries a zoom
\* byte z > 15, and otherwise a cell whose id is the input and whose
\* zoom_level is the decoded zoom.
C21_FromHexIdPropagates ==
  call.fn = "from_hex_id" =>
    \A d \in {decode_hex_identifier(call.id)} :
        /\ d.tag = "Err" => ret = d
        /\ (d.tag = "Ok" /\ d.val[4] > MAX_ZOOM_LEVEL) =>
             ret = Err(<<"InvalidZoomLevel", d.val[4]>>)
        /\ (d.tag = "Ok" /\ d.val[4] <= MAX_ZOOM_LEVEL) =>
             /\ ret.tag = "Ok"
             /\ ret.val.id = call.id
             /\ ret.val.zoom_level = d.val[4]

\* from_hex_id has been given an identifier whose version byte and checksum
\* are both wrong, and has returned InvalidChecksum.
C21_Witness ==
  /\ call.fn = "from_hex_id"
  /\ call.id # call.of.id
  /\ Base64Decode(call.id).tag = "Ok"
  /\ Len(Base64Decode(call.id).val) = 19
  /\ Base64Decode(call.id).val[1] # IDENTIFIER_VERSION
  /\ ret = Err(<<"InvalidChecksum">>)

\* C22: at a zoom whose pitch is at least 100 m, from_bng of a point at most
\* 1 m on each axis from the centre of a cell from_bng returned gives a cell
\* with the same id, row and col.  Stated for cells and points of
\* non-negative coordinates.
C22_NearCentreSameCell ==
  ( /\ call.fn = "from_bng_near"
    /\ F64Le(F64FromInt(100), CELL_WIDTHS[call.zoom + 1])
    /\ OriginSide(call.cell.center)
    /\ OriginSide(call.p) ) =>
    /\ ret.tag = "Ok"
    /\ ret.val.id = call.cell.id
    /\ ret.val.row = call.cell.row
    /\ ret.val.col = call.cell.col

\* Twice the sine, and the sign of the cosine, of 30 + 60 i degrees,
\* i = 0..5.
SinHalves == << 1, 2, 1, -1, -2, -1 >>

CosSign == << 1, 0, -1, -1, 0, 1 >>

\* The relative tolerance of the vertex distances: 2^-20.
RingTolerance == F64Ratio(1, 1048576)

\* |a| <= r * RingTolerance
Negligible(a, r) == ExactLeq(F64Abs(a), ExactMul(r, RingTolerance))

\* The vertex v is vertex i of the hexagon of circumradius r around c: its
\* northing offset is r * sin, its easting offset has the sign of cos (and
\* is negligible where cos is 0), and its distance from c is r, all to the
\* relative tolerance.
VertexAt(v, c, i, r) ==
  \A dx \in {ExactSub(v.x, c.x)}, dy \in {ExactSub(v.y, c.y)} :
    /\ Negligible(ExactSub(ExactMul(F64Two, dy),
                           ExactMul(F64FromInt(SinHalves[i]), r)), r)
    /\ IF CosSign[i] = 0 THEN Negligible(dx, r)
                          ELSE ExactSign(dx) = CosSign[i]
    /\ Negligible(ExactSub(ExactAdd(ExactMul(dx, dx), ExactMul(dy, dy)),
                           ExactMul(r, r)),
                  ExactMul(F64Two, ExactMul(r, r)))

\* C23: to_polygon returns a ring of exactly 7 coordinates, the last equal
\* to the first, the first six at the angles 30 + 60 i degrees (i = 0..5)
\* and at the distance CELL_RADIUS[zoom_level] from the cell's centre, to a
\* relative tolerance of 2^-20.
C23_HexagonRing ==
  call.fn = "to_polygon" =>
    /\ ret.tag = "Returned"
    /\ Len(ret.val) = 7
    /\ ret.val[7] = ret.val[1]
    /\ \A i \in 1..6 :
         VertexAt(ret.val[i], call.cell.center, i,
                  CELL_RADIUS[call.cell.zoom_level + 1])

\* The hexagon of an odd-row cell rebuilt from its identifier has been made.
C23_Witness ==
  /\ call.fn = "to_polygon"
  /\ call.by = "from_hex_id"
  /\ call.cell.row % 2 = 1
  /\ ret.tag = "Returned"
  /\ F64Lt(call.cell.center.y, ret.val[2].y)

\* C24: hex_to_point places the centre at x = col * width + (row mod 2) *
\* (width / 2) with (row mod 2) in {0, 1}, for negative rows too, and
\* point_to_hex subtracts the same (row mod 2) in {0, 1} from the column
\* coordinate before rounding.
C24_BrickOffsetEveryOddRow ==
  /\ (call.fn = "hex_to_point" /\ ret.tag = "Ok") =>
       ret.val.x = F64Add(F64Add(GRID_EXTENTS[1],
                                 F64Mul(F64FromInt(call.col),
                                        CELL_WIDTHS[call.zoom + 1])),
                          F64Mul(F64FromInt(call.row % 2),
                                 F64Div(CELL_WIDTHS[call.zoom + 1], F64Two)))
  /\ (call.fn = "point_to_hex" /\ ret.tag = "Ok") =>
       ret.val[2] = F64RoundAsI64(
                      F64Sub(F64Div(F64Sub(call.p.x, GRID_EXTENTS[1]),
                                    CELL_WIDTHS[call.zoom + 1]),
                             F64FromInt(ret.val[1] % 2)))

\* C25: from_line_string_bng with a zoom above 15 returns
\* Err(InvalidZoomLevel(zoom)) for every line, empty, of one vertex or of
\* many, and never aborts.
C25_LineBadZoomTyped ==
  (call.fn = "from_line_string_bng" /\ call.zoom > MAX_ZOOM_LEVEL) =>
    ret = Err(<<"InvalidZoomLevel", call.zoom>>)

\* C26: a segment whose two vertices are identical has steps = 0 and
\* exactly one sample, its start; a line made of two identical vertices
\* returns exactly one cell, the cell of that vertex.
C26_ZeroLengthSampledOnce ==
  (call.fn = "from_line_string_bng" /\ call.zoom <= MAX_ZOOM_LEVEL) =>
    /\ \A w \in 1..(Len(call.line) - 1) :
         call.line[w] = call.line[w + 1] =>
           /\ segment_steps(call.line[w], call.line[w + 1], call.zoom) = 0
           /\ segment_samples(call.line[w], call.line[w + 1], call.zoom)
                = <<call.line[w]>>
    /\ (Len(call.line) = 2 /\ call.line[1] = call.line[2]) =>
         ret = Ok(<<CellOf(call.line[1], call.zoom)>>)

\* A line of two identical vertices has been covered.
C26_Witness ==
  /\ call.fn = "from_line_string_bng" /\ call.zoom <= MAX_ZOOM_LEVEL
  /\ Len(call.line) = 2 /\ call.line[1] = call.line[2]
  /\ ret.tag = "Ok" /\ Len(ret.val) = 1

\* C27: two cells of a list from_line_string_bng returns that differ in
\* (row, col) differ in id, cells with a centre of negative easting or
\* northing included; no list holds two cells with the same id.
C27_IdsDistinguishCells ==
  (call.fn = "from_line_string_bng" /\ ret.tag = "Ok") =>
    \A i, j \in 1..Len(ret.val) :
      <<ret.val[i].row, ret.val[i].col>> # <<ret.val[j].row, ret.val[j].col>>
        => ret.val[i].id # ret.val[j].id

\* The last value given to a field by one of its setters, if one was called.
LastOf(hist, setters) ==
  LET calls == {i \in 1..Len(hist) : hist[i].setter \in setters}
  IN  IF calls = {} THEN NoRet
      ELSE Some(hist[CHOOSE i \in calls : \A j \in calls : j <= i].arg)

\* C28: after any sequence of setter calls every field of the builder holds
\* the last value its own setter was given, whatever other setters were
\* called before, between or after; and build makes the grid of the
\* multipolygon if one was set, else of the polygon if one was set, else of
\* the extent.
C28_BuilderOrderIndependent ==
  call.fn \in {"builder", "build"} =>
    \A zoom_level \in {LastOf(call.hist, {"zoom_level"})},
       extent \in {LastOf(call.hist, {"rect", "bng_extent", "wgs84_extent"})},
       polygon \in {LastOf(call.hist, {"bng_polygon", "wgs84_polygon"})},
       multipolygon \in {LastOf(call.hist, {"bng_multipolygon",
                                            "wgs84_multipolygon"})} :
        /\ call.b = HexGridBuilder(zoom_level, extent, polygon, multipolygon)
        /\ (call.fn = "build" /\ ret.tag = "Returned") =>
             ret.val =
               IF multipolygon.tag = "Some"
                 THEN from_bng_multipolygon(multipolygon.val, zoom_level.val)
               ELSE IF polygon.tag = "Some"
                 THEN from_bng_polygon(polygon.val, zoom_level.val)
               ELSE from_bng_extent(extent.val.min, extent.val.max, zoom_level.val)

\* A grid has been built after a multipolygon, then a zoom, then a polygon
\* were set, and it is the multipolygon's grid, which the polygon's is not.
C28_Witness ==
  /\ call.fn = "build"
  /\ Len(call.hist) = 3
  /\ call.hist[1].setter = "bng_multipolygon"
  /\ call.hist[2].setter = "zoom_level"
  /\ call.hist[3].setter = "bng_polygon"
  /\ ret.tag = "Returned"
  /\ Len(ret.val.cells) >= 2
  /\ ret.val # from_bng_polygon(call.b.polygon.val, call.b.zoom_level.val)

(***************************************************************************)
(* Every way of making cells: the constructors of HexCell and of HexGrid   *)
(***************************************************************************)
\* The lines and the geometries the constructors are given together.
CellLines(zoom) ==
  One({ {<< >>} \cup {<<p>> : p \in ps} \cup {<<p, q>> : p \in ps, q \in ps}
        : ps \in {{LatticePoint(-2, 6, zoom), LatticePoint(1, 7, zoom)}} })

\* The keys of the HashSet of a call with one of these lines.
CellHashKeys == HashKeysOver(RowColsOfLines(CellLines(MAX_ZOOM_LEVEL), MAX_ZOOM_LEVEL))

CellGeometries(zoom) ==
  One({
    { Geometry("Point", p[1]),
      Geometry("MultiPoint", <<p[1], p[2]>>),
      Geometry("LineString", <<p[3], p[1]>>),
      Geometry("Polygon", PolygonInput(1, zoom)),
      Geometry("GeometryCollection",
               <<Geometry("Point", p[2]), Geometry("LineString", <<p[1], p[3]>>)>>) }
    : p \in {GeometryPoints(zoom)} })

NextCells ==
  \/ \E kx \in SparseSteps, ky \in SparseSteps, zoom \in IndexZooms :
        \E p \in {LatticePoint(kx, ky, zoom)} : FromBng(p, zoom)
  \/ ReSnap
  \/ FromHexId
  \/ ToPolygon
  \/ \E zoom \in IndexZooms, c \in HexIdCases :
        \E p \in {LatticePoint(LatticeAbove, LatticeAbove, zoom)} :
          FromHexIdOf(p, zoom, c[1], c[2])
  \/ \E zoom \in LineZooms : \E line \in CellLines(zoom) :
        FromLineStringBng(line, zoom, CellHashKeys)
  \/ \E zoom \in GeometryZooms : \E geom \in CellGeometries(zoom) :
        FromGeometry(geom, zoom)
  \/ \E zoom \in {15, 16} : \E e \in ExtentInputs(zoom) : FromBngExtent(e, zoom)
  \/ \E zoom \in {15, 16}, k \in {1, 2} :
        \E polygon \in {PolygonInput(k, zoom)} : FromBngPolygon(polygon, zoom)
  \/ \E zoom \in {15, 16} :
        \E multipolygon \in {MultiPolygonInput(<<2, 3>>, zoom)} :
          FromBngMultipolygon(multipolygon, zoom)
  \/ \E i \in {0, ExtentSpan}, j \in {0, ExtentSpan} : GetCellAt(i, j)

SpecCells == Init /\ [][NextCells]_vars

\* The cells a call returned, as a sequence.
CellsReturned ==
  IF call.fn \in {"from_bng", "from_bng_near", "from_hex_id"} /\ ret.tag = "Ok"
    THEN <<ret.val>>
  ELSE IF call.fn \in {"from_line_string_bng", "from_geometry"} /\ ret.tag = "Ok"
    THEN ret.val
  ELSE IF call.fn \in {"from_bng_extent", "from_bng_polygon", "from_bng_multipolygon"}
    THEN ret.cells
  ELSE IF call.fn = "get_cell_at" /\ ret.tag = "Some"
    THEN <<ret.val>>
  ELSE << >>

\* C29: every cell a constructor returns, and every cell of a grid, has
\* zoom_level <= 15, so that to_polygon's lookup CELL_RADIUS[zoom_level] is
\* within bounds and to_polygon does not abort.
C29_CellsCarryValidZoom ==
  /\ \A i \in 1..Len(CellsReturned) : CellsReturned[i].zoom_level <= MAX_ZOOM_LEVEL
  /\ call.fn = "to_polygon" => ret.tag = "Returned"

\* from_hex_id has been given a well-formed identifier whose zoom byte is
\* above 15, and has returned no cell.
C29_Witness ==
  /\ call.fn = "from_hex_id"
  /\ decode_hex_identifier(call.id).tag = "Ok"
  /\ decode_hex_identifier(call.id).val[4] > MAX_ZOOM_LEVEL
  /\ ret.tag = "Err"

(***************************************************************************)
(* Properties of the sampling of a line (SpecLine)                         *)
(***************************************************************************)
\* The (row, col) of the cell of a vertex.
VertexCell(p, zoom) == point_to_hex(p.x, p.y, zoom).val

\* C30: for every segment of a line of two vertices or more,
\* from_line_string_bng samples the segment's start (t = 0) and its end
\* (t = 1), and two consecutive samples are at most CELL_RADIUS[zoom] / 2
\* apart; the cell of every vertex is in the output, the first cell of the
\* output is the cell of the first vertex, and a line of two vertices that
\* index to different cells yields more than one cell.
C30_LineSamplingDensity ==
  ( /\ call.fn = "from_line_string_bng"
    /\ call.zoom <= MAX_ZOOM_LEVEL
    /\ Len(call.line) >= 2
    /\ ret.tag = "Ok" ) =>
    \A out \in {RowCols(ret.val)}, step2 \in {ExactMul(step_size(call.zoom),
                                                      step_size(call.zoom))} :
      /\ \A w \in 1..(Len(call.line) - 1) :
           \A s \in {segment_samples(call.line[w], call.line[w + 1], call.zoom)} :
             /\ s[1] = call.line[w]
             /\ s[Len(s)] = call.line[w + 1]
             /\ \A k \in 1..(Len(s) - 1) :
                  ExactLeq(ExactDist2(s[k], s[k + 1]), step2)
      /\ \A v \in 1..Len(call.line) :
           \A cell \in {VertexCell(call.line[v], call.zoom)} :
             \E i \in 1..Len(out) : out[i] = cell
      /\ out[1] = VertexCell(call.line[1], call.zoom)
      /\ ( /\ Len(call.line) = 2
           /\ VertexCell(call.line[1], call.zoom) # VertexCell(call.line[2], call.zoom) )
           => Len(out) > 1
====
